---- MODULE Spec2Model ----
(***************************************************************************)
(* Verification model of the tactical core of                              *)
(* src/beta-spawn_and_swamp/main.mjs (the squad variant, lines 562-1559):  *)
(* the cached movement controller, the lifecycle tracker, the deployment   *)
(* sequencer and the tick loop.                                            *)
(*                                                                         *)
(* Eleven specifications share the module:                                 *)
(*   SpecPath  the loop around the first gatherer, driven through          *)
(*             cachedMoveTo while the arena moves it, delays it, takes it  *)
(*             off its path or destroys it;                                *)
(*   Spec      the tick loop over the whole roster: pruning, roles,        *)
(*             deployment, spawning, behaviours, towers, with a pathfinder *)
(*             that finds no route;                                        *)
(*   SpecGame  both side by side;                                          *)
(*   SpecRoster     one call of loop() on a roster of creeps of any        *)
(*             loadout, as the arena may hand it;                          *)
(*   SpecWaves      one call of loop() late in a game, after up to 26      *)
(*             squads were formed and with what is left of the first;      *)
(*   SpecFunctions  findNearestEnemy and calculateKillSquadWaypoint, each  *)
(*             applied once to arguments drawn from bounded sets;          *)
(*   SpecStrike     Spec, and the call of loop() after creeps of the kill  *)
(*             squad fell and the spawn built their loadout again;         *)
(*   SpecProgress   one creep that calls cachedMoveTo every tick in an     *)
(*             arena that finds its paths and carries out its moves;       *)
(*   SpecChecked, SpecEarliest, SpecLaunch   the earlier variants under    *)
(*             src/unnamed: the controller of part_004, the controller of  *)
(*             part_003 and the wave deployment of part_004.               *)
(* JavaScript arrays are 0-based; a path is a TLA+ sequence and the step   *)
(* at JavaScript index i is path[i + 1].                                   *)
(***************************************************************************)
EXTENDS Integers, Sequences, FiniteSets, TLC

VARIABLES
    tick,                      \* getTicks()
    creepPaths,                \* creep id -> [target, tick, path, pathIndex]
    creepPos,                  \* the cell a behaviour finds its creep on
    lastMove,                  \* what the latest cachedMoveTo call did
    pc,                        \* position of loop() within the tick
    roster,                    \* the arena's own creeps, oldest first
    spawned,                   \* number of creeps the spawn has produced
    newborn,                   \* the creep spawnCreep created this tick, if any
    spawning,                  \* mySpawn.spawning
    enemies,                   \* ids of the enemy creeps alive
    deaths,                    \* own creeps destroyed so far
    cats,                      \* loop(): { harvesters, attackers, medics }
    bi,                        \* loop(): index of the creep whose behaviour runs next
    deployedAttackers,
    deployedMedics,
    squadAssignments,          \* creep id -> squad name
    squadLeaders,              \* squad name -> leader creep id
    squadTargets,              \* squad name -> enemy id or null
    nextSquadIndex,
    killSquadDeployed,
    killSquadCreeps,
    killSquadWaypoint,         \* a list of zero or one cells (null or the waypoint)
    killSquadReachedWaypoint,
    defenseSites,              \* the sites manageBuildDefenses asked for in the step just taken
    scan,                      \* what findNearestEnemy gave the squad leader in the step just taken
    mySpawnFound,              \* loop(): the arena holds an own spawn
    heals,                     \* what the medic whose behaviour just ran healed
    attacks,                   \* what the squad fighter whose behaviour just ran struck
    firstWaveLaunched,         \* part_004: the initial wave has been launched
    probe                      \* arguments and result of a function applied on its own

pathVars == <<tick, creepPaths, creepPos, lastMove>>

arenaVars == <<roster, spawned, newborn, spawning, enemies, deaths>>

loopVars == <<pc, cats, bi>>

squadVars == <<deployedAttackers, deployedMedics, squadAssignments, squadLeaders,
               nextSquadIndex>>

killVars == <<killSquadDeployed, killSquadCreeps, killSquadWaypoint,
              killSquadReachedWaypoint>>

vars == <<pathVars, arenaVars, loopVars, squadVars, squadTargets, killVars, defenseSites,
         scan, mySpawnFound, heals, attacks, probe,
         firstWaveLaunched>>

-----------------------------------------------------------------------------
(* Bounds of the model *)

GridMaxX == 4                  \* cells have x in 0..GridMaxX
GridMaxY == 0                  \* cells have y in 0..GridMaxY
MaxPathLen == 2                \* longest step list findPath returns
MaxPathTick == 5               \* SpecPath stops the clock here
MaxTick == 20                  \* Spec stops the clock here
MaxCreeps == 9                 \* creeps the spawn produces in one game
MaxDeaths == 3                 \* own creeps the enemy destroys in one game
MaxEnemies == 1                \* enemy creeps in the arena
FirstRaidTick == 19            \* Spec: the enemy reaches the base no earlier

(* Program constants *)

PATH_REFRESH_INTERVAL == 3
OFFPATH_DETECTION_THRESHOLD == 2
ATTACKERS_PER_SQUAD == 3
MEDICS_PER_SQUAD == 1
KILL_SQUAD_SIZE == 2
TARGET_HARVESTER_COUNT == 3

NATO_ALPHABET ==
    <<"Alpha", "Bravo", "Charlie", "Delta", "Echo", "Foxtrot", "Golf", "Hotel",
      "India", "Juliet", "Kilo", "Lima", "Mike", "November", "Oscar", "Papa",
      "Quebec", "Romeo", "Sierra", "Tango", "Uniform", "Victor", "Whiskey", "Xray",
      "Yankee", "Zulu">>

-----------------------------------------------------------------------------
(* Arithmetic and geometry *)

Abs(n) == IF n < 0 THEN -n ELSE n

Max2(a, b) == IF a > b THEN a ELSE b

Cell(x, y) == [x |-> x, y |-> y]

Cells == {Cell(x, y) : x \in 0..GridMaxX, y \in 0..GridMaxY}

\* Math.max(Math.abs(creep.x - expectedPos.x), Math.abs(creep.y - expectedPos.y))
Chebyshev(x1, y1, x2, y2) == Max2(Abs(x1 - x2), Abs(y1 - y2))

Sign(n) == IF n > 0 THEN 1 ELSE IF n < 0 THEN -1 ELSE 0

\* game/utils getDirection: the linear direction of an offset, as a unit
\* offset; a zero offset has no direction (the all-zero record).
GetDirection(dx, dy) ==
    IF Abs(dx) > Abs(dy) * 2 THEN [dx |-> Sign(dx), dy |-> 0]
    ELSE IF Abs(dy) > Abs(dx) * 2 THEN [dx |-> 0, dy |-> Sign(dy)]
    ELSE [dx |-> Sign(dx), dy |-> Sign(dy)]

NoDirection == [dx |-> 0, dy |-> 0]

-----------------------------------------------------------------------------
(* The external pathfinding service *)

Neighbours(c) == {d \in Cells : Chebyshev(c.x, c.y, d.x, d.y) = 1}

RECURSIVE Walks(_, _, _)
\* every walk of 1..n neighbouring cells that leaves cell c (c itself excluded)
\* and comes one cell nearer to cell t with each step: the prefixes of the
\* optimal paths from c to t over open terrain
Walks(c, t, n) ==
    IF n = 0 THEN {}
    ELSE UNION {{<<d>>} \cup {<<d>> \o w : w \in Walks(d, t, n - 1)} :
                d \in {e \in Neighbours(c) : Chebyshev(e.x, e.y, t.x, t.y)
                                               < Chebyshev(c.x, c.y, t.x, t.y)}}

\* findPath(creep, target, opts): null, an empty list, or a step list
FindPathResults(from, target) ==
    {[isNull |-> TRUE, steps |-> <<>>], [isNull |-> FALSE, steps |-> <<>>]}
        \cup {[isNull |-> FALSE, steps |-> w] :
                w \in Walks(from, Cell(target.x, target.y), MaxPathLen)}

-----------------------------------------------------------------------------
(* Movement targets: a game object carries an id, a bare position does not *)

NoId == ""

\* const targetId = target.id || `${target.x},${target.y}`
TargetKey(target) ==
    IF target.id # NoId THEN target.id
    ELSE ToString(target.x) \o "," \o ToString(target.y)

-----------------------------------------------------------------------------
(* cachedMoveTo *)

\* a cachedMoveTo without the drift check
NeverOffPath(cp, id, cx, cy) == FALSE

\* let isSignificantlyOffPath = false; if (pathCache && pathIndex > 0 && ...)
IsSignificantlyOffPath(cp, id, cx, cy) ==
    IF id \in DOMAIN cp /\ cp[id].pathIndex > 0 /\ cp[id].pathIndex < Len(cp[id].path)
    THEN LET expectedPos == cp[id].path[(cp[id].pathIndex - 1) + 1]
         IN Chebyshev(cx, cy, expectedPos.x, expectedPos.y) > OFFPATH_DETECTION_THRESHOLD
    ELSE FALSE

\* a needsNewPath without the refresh interval
NeedsNewPathAgeless(cp, id, cx, cy, targetId, tk) ==
    \/ id \notin DOMAIN cp
    \/ cp[id].target # targetId
    \/ cp[id].pathIndex >= Len(cp[id].path)
    \/ IsSignificantlyOffPath(cp, id, cx, cy)

NeedsNewPath(cp, id, cx, cy, targetId, tk) ==
    \/ id \notin DOMAIN cp
    \/ cp[id].target # targetId
    \/ tk - cp[id].tick >= PATH_REFRESH_INTERVAL
    \/ cp[id].pathIndex >= Len(cp[id].path)
    \/ IsSignificantlyOffPath(cp, id, cx, cy)

\* a validity test that forgets the empty list
NullOnly(fp) == fp.isNull

\* if (!path || path.length === 0) return;
NoValidPath(fp) == fp.isNull \/ Len(fp.steps) = 0

\* a fresh entry whose cursor stands behind the last step
SpentEntry(targetId, tk, steps) ==
    [target |-> targetId, tick |-> tk, path |-> steps, pathIndex |-> Len(steps)]

NewEntry(targetId, tk, steps) ==
    [target |-> targetId, tick |-> tk, path |-> steps, pathIndex |-> 0]

Put(f, k, v) == [x \in DOMAIN f \cup {k} |-> IF x = k THEN v ELSE f[x]]

\* if (cache.path && cache.pathIndex < cache.path.length)
CanFollow(cache) == cache.pathIndex < Len(cache.path)

\* a cursor that jumps over the step after the one reached
SkipPathIndex(cache, cx, cy) ==
    LET nextStep == cache.path[cache.pathIndex + 1]
    IN IF cx = nextStep.x /\ cy = nextStep.y THEN cache.pathIndex + 2
       ELSE cache.pathIndex

\* a cursor that advances as soon as the move is issued
AdvanceOnMove(cache, cx, cy) == cache.pathIndex + 1

\* if (creep.x === nextStep.x && creep.y === nextStep.y) cache.pathIndex++
NextPathIndex(cache, cx, cy) ==
    LET nextStep == cache.path[cache.pathIndex + 1]
    IN IF cx = nextStep.x /\ cy = nextStep.y THEN cache.pathIndex + 1
       ELSE cache.pathIndex

\* The effects of one call: the new table, whether findPath was invoked,
\* whether creep.move was invoked, with which direction, and the index and
\* entry of the step it was computed from (-1 when no step was read); noPath
\* tells that findPath was invoked and answered null or an empty list (the
\* pathfinder's answer as given, whatever the code made of it).
CachedMoveTo(cp, id, cx, cy, target, tk, fp) ==
    LET targetId == TargetKey(target)
        needsNewPath == NeedsNewPath(cp, id, cx, cy, targetId, tk)
        quiet == [creepPaths |-> cp, findPathCalled |-> needsNewPath,
                  noPath |-> needsNewPath /\ (fp.isNull \/ fp.steps = <<>>),
                  moved |-> FALSE, direction |-> NoDirection,
                  stepIndex |-> -1, stepTick |-> -1]
    IN IF needsNewPath /\ NoValidPath(fp) THEN quiet
       ELSE LET cp1 == IF needsNewPath
                       THEN Put(cp, id, NewEntry(targetId, tk, fp.steps))
                       ELSE cp
                cache == cp1[id]
            IN IF CanFollow(cache)
               THEN LET nextStep == cache.path[cache.pathIndex + 1]
                    IN [creepPaths |->
                            [cp1 EXCEPT ![id].pathIndex = NextPathIndex(cache, cx, cy)],
                        findPathCalled |-> needsNewPath,
                        noPath |-> FALSE,
                        moved |-> TRUE,
                        direction |-> GetDirection(nextStep.x - cx, nextStep.y - cy),
                        stepIndex |-> cache.pathIndex,
                        stepTick |-> cache.tick]
               ELSE [quiet EXCEPT !.creepPaths = cp1]

-----------------------------------------------------------------------------
(* The core tables at game start (module scope of main.mjs) *)

\* the step just taken was not a squad leader's search for a target
NoScan == <<>>

\* the step just taken was not a medic's behaviour
NoHeal == <<>>

\* the step just taken was not the behaviour of a fighter of a named squad
NoAttack == <<>>

\* no function is being applied on its own
NoProbe == [fn |-> "none"]

NoCats == [harvesters |-> <<>>, attackers |-> <<>>, medics |-> <<>>]

TablesInit ==
    /\ deployedAttackers = {}
    /\ deployedMedics = {}
    /\ squadAssignments = <<>>
    /\ squadLeaders = <<>>
    /\ squadTargets = <<>>
    /\ nextSquadIndex = 0
    /\ killSquadDeployed = FALSE
    /\ killSquadCreeps = {}
    /\ killSquadWaypoint = <<>>
    /\ killSquadReachedWaypoint = {}

-----------------------------------------------------------------------------
(* Creeps and their loadouts *)

MOVE == "move"
ATTACK == "attack"
RANGED_ATTACK == "ranged_attack"
CARRY == "carry"
HEAL == "heal"

\* the four loadouts executeSpawnStrategy orders
HarvesterBody == <<CARRY, CARRY, MOVE, MOVE>>
KillSquadBody == <<MOVE, MOVE, MOVE, MOVE, ATTACK, ATTACK>>
MedicBody == <<MOVE, HEAL, MOVE>>
AttackerBody == <<MOVE, MOVE, ATTACK, MOVE, ATTACK, MOVE, ATTACK>>

CreepId(n) == "c" \o ToString(n)

EnemyIds == {"e" \o ToString(n) : n \in 1..MaxEnemies}

\* creep.body.some(p => p.type === type)
HasPart(creep, type) == \E i \in DOMAIN creep.body : creep.body[i] = type

\* creep.body.filter(p => p.type === type).length
CountParts(creep, type) == Cardinality({i \in DOMAIN creep.body : creep.body[i] = type})

Ids(creeps) == {creeps[i].id : i \in DOMAIN creeps}

Min2(a, b) == IF a < b THEN a ELSE b

\* the first n elements of a list (all of them when it is shorter)
Take(list, n) == SubSeq(list, 1, Min2(n, Len(list)))

HasAttackCapability(creep) == HasPart(creep, ATTACK) \/ HasPart(creep, RANGED_ATTACK)

\* a classifier that looks into the deployment table: a deployed fighter is no
\* attacker to it
CategorizeUndeployed(myCreeps) ==
    [harvesters |-> SelectSeq(myCreeps, LAMBDA c : HasPart(c, CARRY)),
     attackers |-> SelectSeq(myCreeps, LAMBDA c : /\ HasAttackCapability(c)
                                                 /\ c.id \notin deployedAttackers),
     medics |-> SelectSeq(myCreeps, LAMBDA c : HasPart(c, HEAL))]

CategorizeCreeps(myCreeps) ==
    [harvesters |-> SelectSeq(myCreeps, LAMBDA c : HasPart(c, CARRY)),
     attackers |-> SelectSeq(myCreeps, LAMBDA c : HasAttackCapability(c)),
     medics |-> SelectSeq(myCreeps, LAMBDA c : HasPart(c, HEAL))]

-----------------------------------------------------------------------------
(* Lifecycle tracker *)

\* a cleanup that forgets the keyed tables
KeepObject(obj, aliveCreepIds) == obj

\* for (const creepId in obj) if (!aliveCreepIds.has(creepId)) delete obj[creepId]
PruneObject(obj, aliveCreepIds) == [k \in DOMAIN obj \cap aliveCreepIds |-> obj[k]]

\* a cleanup that empties a set as soon as one of its creeps is gone
ClearSet(set, aliveCreepIds) == IF set \subseteq aliveCreepIds THEN set ELSE {}

\* for (const creepId of set) if (!aliveCreepIds.has(creepId)) set.delete(creepId)
PruneSet(set, aliveCreepIds) == set \cap aliveCreepIds

\* myCreeps.filter(c => squadAssignments[c.id] === squadName && deployedAttackers.has(c.id))
RemainingMembers(myCreeps, sa, da, squadName) ==
    SelectSeq(myCreeps,
              LAMBDA c : c.id \in DOMAIN sa /\ sa[c.id] = squadName /\ c.id \in da)

\* a cleanup that leaves squadLeaders alone
KeepLeaders(sl, myCreeps, sa, da) == sl

\* a cleanup that removes a dead leader without looking for a successor
DropLeaders(sl, myCreeps, sa, da) ==
    [s \in {n \in DOMAIN sl : sl[n] \in Ids(myCreeps)} |-> sl[s]]

\* the squadLeaders loop of cleanupDeadCreepState, over the pruned tables
ReconcileLeaders(sl, myCreeps, sa, da) ==
    LET alive == Ids(myCreeps)
        kept == {s \in DOMAIN sl :
                    sl[s] \in alive \/ RemainingMembers(myCreeps, sa, da, s) # <<>>}
    IN [s \in kept |-> IF sl[s] \in alive THEN sl[s]
                       ELSE RemainingMembers(myCreeps, sa, da, s)[1].id]

\* a cleanup that leaves every designation where it is
KeepTargets(st, aliveEnemyIds) == st

\* cleanupDeadTargets: if (targetId && !aliveEnemyIds.has(targetId)) delete
PruneTargets(st, aliveEnemyIds) ==
    [s \in {n \in DOMAIN st : ~(st[n] # NoId /\ st[n] \notin aliveEnemyIds)} |-> st[s]]

-----------------------------------------------------------------------------
(* Deployment sequencer *)

IsKillSquadBody(a) == CountParts(a, MOVE) = 4 /\ CountParts(a, ATTACK) = 2

KillSquadCandidates(attackers, da, ks) ==
    SelectSeq(attackers,
              LAMBDA a : ~(a.id \in da \/ a.id \in ks) /\ IsKillSquadBody(a))

\* a wave deployment that counts every fighter as undeployed
AllAttackers(attackers, da, ks) == attackers

UndeployedAttackers(attackers, da, ks) ==
    SelectSeq(attackers, LAMBDA a : a.id \notin da /\ a.id \notin ks)

UndeployedMedics(medics, dm) == SelectSeq(medics, LAMBDA d : d.id \notin dm)

\* if (undeployedAttackers.length >= ATTACKERS_PER_SQUAD && ... >= MEDICS_PER_SQUAD)
SquadReady(ua, um) == Len(ua) >= ATTACKERS_PER_SQUAD /\ Len(um) >= MEDICS_PER_SQUAD

SquadName(index) == NATO_ALPHABET[(index % Len(NATO_ALPHABET)) + 1]

\* a deployment that sends the squad out one fighter short
FormSquadShort(ua, um, da, dm, sa, sl, index) ==
    LET squadName == SquadName(index)
        fighters == Take(ua, ATTACKERS_PER_SQUAD - 1)
        healers == Take(um, MEDICS_PER_SQUAD)
        tagged == Ids(fighters) \cup Ids(healers)
    IN [deployedAttackers |-> da \cup Ids(fighters),
        deployedMedics |-> dm \cup Ids(healers),
        squadAssignments |->
            [k \in DOMAIN sa \cup tagged |-> IF k \in tagged THEN squadName ELSE sa[k]],
        squadLeaders |-> IF fighters = <<>> THEN sl ELSE Put(sl, squadName, fighters[1].id),
        nextSquadIndex |-> index + 1]

\* a deployment whose last fighter leads the squad
FormSquadLastLeads(ua, um, da, dm, sa, sl, index) ==
    LET squadName == SquadName(index)
        fighters == Take(ua, ATTACKERS_PER_SQUAD)
        healers == Take(um, MEDICS_PER_SQUAD)
        tagged == Ids(fighters) \cup Ids(healers)
    IN [deployedAttackers |-> da \cup Ids(fighters),
        deployedMedics |-> dm \cup Ids(healers),
        squadAssignments |->
            [k \in DOMAIN sa \cup tagged |-> IF k \in tagged THEN squadName ELSE sa[k]],
        squadLeaders |-> IF fighters = <<>> THEN sl
                         ELSE Put(sl, squadName, fighters[Len(fighters)].id),
        nextSquadIndex |-> index + 1]

\* a deployment that stops once every name of the alphabet has been given out
FormSquadWhileNamesLast(ua, um, da, dm, sa, sl, index) ==
    IF index >= Len(NATO_ALPHABET)
    THEN [deployedAttackers |-> da, deployedMedics |-> dm, squadAssignments |-> sa,
          squadLeaders |-> sl, nextSquadIndex |-> index]
    ELSE FormSquadLastLeads(ua, um, da, dm, sa, sl, index)

\* a deployment that tags the fighters only
FormSquadOfFighters(ua, um, da, dm, sa, sl, index) ==
    LET squadName == SquadName(index)
        fighters == Take(ua, ATTACKERS_PER_SQUAD)
        healers == Take(um, MEDICS_PER_SQUAD)
        tagged == Ids(fighters)
    IN [deployedAttackers |-> da \cup Ids(fighters),
        deployedMedics |-> dm \cup Ids(healers),
        squadAssignments |->
            [k \in DOMAIN sa \cup tagged |-> IF k \in tagged THEN squadName ELSE sa[k]],
        squadLeaders |-> IF fighters = <<>> THEN sl ELSE Put(sl, squadName, fighters[1].id),
        nextSquadIndex |-> index + 1]

\* the tables after the body of the deployment branch of deployAttackWaves
FormSquad(ua, um, da, dm, sa, sl, index) ==
    LET squadName == SquadName(index)
        fighters == Take(ua, ATTACKERS_PER_SQUAD)
        healers == Take(um, MEDICS_PER_SQUAD)
        tagged == Ids(fighters) \cup Ids(healers)
    IN [deployedAttackers |-> da \cup Ids(fighters),
        deployedMedics |-> dm \cup Ids(healers),
        squadAssignments |->
            [k \in DOMAIN sa \cup tagged |-> IF k \in tagged THEN squadName ELSE sa[k]],
        squadLeaders |-> IF fighters = <<>> THEN sl ELSE Put(sl, squadName, fighters[1].id),
        nextSquadIndex |-> index + 1]

\* the loadout executeSpawnStrategy passes to spawnCreep
SpawnBody(harvesters, attackers, medics, da, dm, ks) ==
    IF Len(harvesters) < TARGET_HARVESTER_COUNT THEN HarvesterBody
    ELSE IF Len(SelectSeq(attackers, LAMBDA a : IsKillSquadBody(a))) < KILL_SQUAD_SIZE
    THEN KillSquadBody
    ELSE IF /\ Len(UndeployedAttackers(attackers, da, ks)) >= ATTACKERS_PER_SQUAD
            /\ Len(UndeployedMedics(medics, dm)) < MEDICS_PER_SQUAD
    THEN MedicBody
    ELSE AttackerBody

-----------------------------------------------------------------------------
(* Behaviour executors: what each decides from the tables and from what it
   reads of the arena (ranges, stores, search results) *)

MySpawn == [id |-> "spawn", x |-> 0, y |-> 0]

EnemySpawn == [id |-> "enemySpawn", x |-> GridMaxX, y |-> GridMaxY]

\* a construction site, container, source, extension or wall
Structure(kind) == [id |-> kind, x |-> GridMaxX, y |-> 0]

\* a creep of either side, met at cell c
CreepAt(id, c) == [id |-> id, x |-> c.x, y |-> c.y]

\* a bare position
Position(c) == [id |-> NoId, x |-> c.x, y |-> c.y]

\* A plan is the list of the targets the behaviour passes to cachedMoveTo, in
\* call order.
Stay == <<>>

Go(target) == <<target>>

\* runHarvesterBehavior
HarvesterPlan(nearbyEnemy, used, site, free, container, source, extension, far) ==
    IF nearbyEnemy # NoId THEN Go(MySpawn)
    ELSE IF used /\ site THEN (IF far THEN Go(Structure("site")) ELSE Stay)
    ELSE IF free
    THEN IF container THEN (IF far THEN Go(Structure("container")) ELSE Stay)
         ELSE IF source THEN (IF far THEN Go(Structure("source")) ELSE Stay)
         ELSE Stay
    ELSE IF far THEN Go(IF extension THEN Structure("extension") ELSE MySpawn)
    ELSE Stay

\* getSquadLeader(creep, allCreeps): the leader's id, or null
GetSquadLeader(id, myCreeps, sa, sl) ==
    IF id \notin DOMAIN sa THEN NoId
    ELSE IF sa[id] \notin DOMAIN sl THEN NoId
    ELSE IF sl[sa[id]] \in Ids(myCreeps) THEN sl[sa[id]]
    ELSE NoId

\* a test every tagged creep passes
IsSquadMember(id, sa, sl) == id \in DOMAIN sa

\* isSquadLeader(creep)
IsSquadLeader(id, sa, sl) ==
    id \in DOMAIN sa /\ sa[id] \in DOMAIN sl /\ sl[sa[id]] = id

\* getSquadMembers(creep, allCreeps, attackersOnly)
GetSquadMembers(id, myCreeps, sa, da, attackersOnly) ==
    SelectSeq(myCreeps,
              LAMBDA c : /\ c.id # id
                         /\ (IF id \in DOMAIN sa
                             THEN c.id \in DOMAIN sa /\ sa[c.id] = sa[id]
                             ELSE c.id \notin DOMAIN sa)
                         /\ (~attackersOnly \/ c.id \in da))

\* a designation that holds on to the target the squad already has
KeepSquadTarget(st, id, sa, targetEnemy) ==
    IF id \in DOMAIN sa
    THEN IF sa[id] \in DOMAIN st /\ st[sa[id]] # NoId THEN st
         ELSE Put(st, sa[id], targetEnemy)
    ELSE st

\* setSquadTarget(leaderCreep, targetEnemy)
SetSquadTarget(st, id, sa, targetEnemy) ==
    IF id \in DOMAIN sa THEN Put(st, sa[id], targetEnemy) ELSE st

\* getSquadTarget(creep, allEnemyCreeps): the designated enemy's id, or null
GetSquadTarget(id, sa, st, allEnemies) ==
    IF id \notin DOMAIN sa THEN NoId
    ELSE IF sa[id] \notin DOMAIN st THEN NoId
    ELSE IF st[sa[id]] \in allEnemies THEN st[sa[id]]
    ELSE NoId

-----------------------------------------------------------------------------
(* Behaviour executors, continued *)

\* another creep or an enemy, wherever it stands
Elsewhere == Cell(GridMaxX, GridMaxY)

\* runMedicBehavior: every plan the medic can form from the tables, over all
\* it may read of hits and ranges
MedicPlans(id, myCreeps, allEnemies, sa, sl, da, dm, ks) ==
    LET leader == GetSquadLeader(id, myCreeps, sa, sl)
        squadmates == GetSquadMembers(id, myCreeps, sa, da, TRUE)
        others == {o \in Ids(myCreeps) \ {id} : (o \in da \/ o \in dm) /\ o \notin ks}
        reserve == IF id \in DOMAIN sa
                   THEN {m \in Ids(myCreeps) \ {id} :
                            m \in DOMAIN sa /\ sa[m] = sa[id] /\ m \notin ks}
                   ELSE {}
    IN IF id \in dm
       THEN IF squadmates # <<>> \/ leader # NoId
            THEN {Stay}
                 \cup {Go(CreepAt(m, Elsewhere)) : m \in Ids(squadmates)}
                 \cup {Go(CreepAt(IF leader # NoId THEN leader ELSE squadmates[1].id,
                                  Elsewhere))}
            ELSE IF others # {}
            THEN {Stay} \cup {Go(CreepAt(o, Elsewhere)) : o \in others}
            ELSE {Go(EnemySpawn)}
       ELSE {Stay, Go(MySpawn)}
            \cup {Go(CreepAt(d, Elsewhere)) : d \in Ids(myCreeps) \ ks}
            \cup {Go(CreepAt(m, Elsewhere)) : m \in reserve}
            \cup {Go(CreepAt(e, Elsewhere)) : e \in allEnemies}

\* creep.heal(target) or creep.rangedHeal(target)
HealCall(fn, target) == <<[fn |-> fn, target |-> target]>>

\* runMedicBehavior: what the medic has read and called beside its plan.
\* damaged: the wounded creep findMostDamagedCreep (or the find over myCreeps)
\* gave it, or null; calls: its heal or rangedHeal call, if it made one
MedicHeals(id, myCreeps, sa, sl, da, dm, ks, plan) ==
    LET leader == GetSquadLeader(id, myCreeps, sa, sl)
        squadmates == GetSquadMembers(id, myCreeps, sa, da, TRUE)
        others == {o \in Ids(myCreeps) \ {id} : (o \in da \/ o \in dm) /\ o \notin ks}
        aim == IF plan = Stay THEN NoId ELSE plan[1].id
        Seen(damaged, calls) == [medic |-> id, damaged |-> damaged, calls |-> calls]
        Nothing == Seen(NoId, <<>>)
    IN IF id \in dm
       THEN IF squadmates # <<>> \/ leader # NoId
            THEN IF plan = Stay
                 \* rangeToTarget <= 1: heal; or nobody wounded and in formation
                 THEN {Seen(m, HealCall("heal", m)) : m \in Ids(squadmates)} \cup {Nothing}
                 \* rangeToTarget > 1: rangedHeal up to range 3, and move; or
                 \* nobody wounded and followTarget out of formation
                 ELSE (IF aim \in Ids(squadmates)
                       THEN {Seen(aim, HealCall("rangedHeal", aim)), Seen(aim, <<>>)}
                       ELSE {})
                      \cup (IF aim = (IF leader # NoId THEN leader ELSE squadmates[1].id)
                            THEN {Nothing}
                            ELSE {})
            ELSE IF others # {}
            THEN IF plan = Stay
                 THEN {Seen(o, HealCall(fn, o)) : o \in others, fn \in {"heal", "rangedHeal"}}
                      \cup {Nothing}
                 ELSE {Seen(aim, HealCall("rangedHeal", aim)), Seen(aim, <<>>), Nothing}
            ELSE {Nothing}
       ELSE IF plan = Stay
            THEN {Seen(d, HealCall(fn, d)) :
                     d \in Ids(myCreeps) \ ks, fn \in {"heal", "rangedHeal"}}
                 \cup {Nothing}
            ELSE IF aim \in Ids(myCreeps) THEN {Seen(aim, <<>>), Nothing}
            ELSE {Nothing}

\* runAttackerBehavior, undeployed branch
ReservePlans(allEnemies) ==
    {Stay, Go(MySpawn), Go(Structure("wall"))}
        \cup {Go(CreepAt(e, Elsewhere)) : e \in allEnemies}

\* runAttackerBehavior, deployed branch of a named-squad member: the plans
\* left once the follower is within cohesion range (or is the leader); st is
\* squadTargets after the leader's designation
EngagePlans(id, myCreeps, allEnemies, sa, sl, st) ==
    LET leader == GetSquadLeader(id, myCreeps, sa, sl)
        designatedTarget == GetSquadTarget(id, sa, st, allEnemies)
    IN IF designatedTarget # NoId
       THEN {Stay, Go(CreepAt(designatedTarget, Elsewhere))}
       ELSE {Stay,
             IF ~IsSquadLeader(id, sa, sl) /\ leader # NoId
             THEN Go(CreepAt(leader, Elsewhere))
             ELSE Go(EnemySpawn)}

\* the opposite base stands right of the map's centre
EnemySpawnX == 94

\* the middle of the shortest path between the bases runs through the upper half
MidPointY == 10

\* a waypoint taken from the last step of the path
WaypointFromPathEnd(enemySpawnX, shortestPath) ==
    IF NoValidPath(shortestPath) THEN <<>>
    ELSE LET midPoint == shortestPath.steps[Len(shortestPath.steps)]
         IN IF enemySpawnX > 50
            THEN (IF midPoint.y < 50 THEN <<Cell(87, 89)>> ELSE <<Cell(87, 10)>>)
            ELSE (IF midPoint.y < 50 THEN <<Cell(12, 89)>> ELSE <<Cell(12, 10)>>)

\* calculateKillSquadWaypoint(mySpawn, enemySpawn), given the shortest path
CalculateKillSquadWaypoint(enemySpawnX, shortestPath) ==
    IF NoValidPath(shortestPath) THEN <<>>
    ELSE LET midIndex == Len(shortestPath.steps) \div 2
             midPoint == shortestPath.steps[midIndex + 1]
         IN IF enemySpawnX > 50
            THEN (IF midPoint.y < 50 THEN <<Cell(87, 89)>> ELSE <<Cell(87, 10)>>)
            ELSE (IF midPoint.y < 50 THEN <<Cell(12, 89)>> ELSE <<Cell(12, 10)>>)

ShortestPaths ==
    {[isNull |-> TRUE, steps |-> <<>>], [isNull |-> FALSE, steps |-> <<>>]}
        \cup {[isNull |-> FALSE, steps |-> <<Cell(50, MidPointY)>>]}

-----------------------------------------------------------------------------
(* What a behaviour step did, as the arena sees it *)

NoMove == [creep |-> NoId, target |-> NoId, calls |-> 0, findPathCalled |-> FALSE,
           noPath |-> FALSE, moved |-> FALSE, direction |-> NoDirection,
           stepIndex |-> -1, stepTick |-> -1]

MoveRecord(id, target, r) ==
    [creep |-> id, target |-> TargetKey(target), calls |-> 1,
     findPathCalled |-> r.findPathCalled, noPath |-> r.noPath, moved |-> r.moved,
     direction |-> r.direction, stepIndex |-> r.stepIndex, stepTick |-> r.stepTick]

\* cachedMoveTo(creep, target) from a behaviour of a creep standing on cell p,
\* with findPath answering from the set `routes`
MoveTo(id, p, target, routes) ==
    \E fp \in routes :
       LET r == CachedMoveTo(creepPaths, id, p.x, p.y, target, tick, fp)
       IN /\ creepPaths' = r.creepPaths
          /\ lastMove' = MoveRecord(id, target, r)

\* findPath when no route exists
NoRoutes == {[isNull |-> TRUE, steps |-> <<>>], [isNull |-> FALSE, steps |-> <<>>]}

\* the tables after cleanupDeadCreepState(myCreeps)
PruneTables(myCreeps) ==
    LET aliveCreepIds == Ids(myCreeps)
        sa == PruneObject(squadAssignments, aliveCreepIds)
        da == PruneSet(deployedAttackers, aliveCreepIds)
    IN /\ creepPaths' = PruneObject(creepPaths, aliveCreepIds)
       /\ squadAssignments' = sa
       /\ deployedAttackers' = da
       /\ deployedMedics' = PruneSet(deployedMedics, aliveCreepIds)
       /\ killSquadCreeps' = PruneSet(killSquadCreeps, aliveCreepIds)
       /\ killSquadReachedWaypoint' = PruneSet(killSquadReachedWaypoint, aliveCreepIds)
       /\ squadLeaders' = ReconcileLeaders(squadLeaders, myCreeps, sa, da)
       /\ UNCHANGED <<nextSquadIndex, killSquadDeployed, killSquadWaypoint>>

HarvesterPlans(allEnemies) ==
    {HarvesterPlan(e, used, site, free, container, source, extension, far) :
        e \in allEnemies \cup {NoId},
        used \in BOOLEAN, site \in BOOLEAN, free \in BOOLEAN, container \in BOOLEAN,
        source \in BOOLEAN, extension \in BOOLEAN, far \in BOOLEAN}

Step(from, to) == pc = from /\ pc' = to

\* where loop() is when a handler has read a property of an undefined value:
\* the call of loop() ends there
TypeError == "TypeError"

MIN_HARVESTERS_FOR_EXTENSIONS == 1

-----------------------------------------------------------------------------
(* SpecPath: the loop around the first gatherer, with the arena's geometry *)

PathCreep == [id |-> CreepId(1), body |-> HarvesterBody]

\* the tick after the spawn was asked for the first gatherer
PathInit ==
    /\ tick = 2
    /\ creepPaths = <<>>
    /\ creepPos \in Cells
    /\ lastMove = NoMove
    /\ TablesInit
    /\ pc = "pathCleanup"
    /\ roster = <<PathCreep>>
    /\ spawned = 1
    /\ newborn = <<>>
    /\ spawning = TRUE
    /\ enemies = {}
    /\ deaths = 0
    /\ cats = NoCats
    /\ bi = 0
    /\ defenseSites = {}
    /\ scan = NoScan
    /\ mySpawnFound = TRUE
    /\ heals = NoHeal
    /\ attacks = NoAttack
    /\ firstWaveLaunched = FALSE
    /\ probe = NoProbe

\* loop(): cleanupDeadCreepState(myCreeps)
PathCleanup ==
    /\ Step("pathCleanup", "pathBehave")
    /\ PruneTables(roster)
    /\ UNCHANGED <<tick, creepPos, lastMove, arenaVars, cats, bi, squadTargets>>
    /\ defenseSites' = {}
    /\ scan' = NoScan
    /\ heals' = NoHeal
    /\ attacks' = NoAttack
    /\ UNCHANGED <<mySpawnFound, probe, firstWaveLaunched>>

\* loop(): runHarvesterBehavior(creep, mySpawn)
PathHarvest ==
    /\ Step("pathBehave", "pathEnd")
    /\ roster # <<>>
    /\ \E plan \in HarvesterPlans(enemies) :
          IF plan = Stay
          THEN /\ lastMove' = [NoMove EXCEPT !.creep = roster[1].id]
               /\ UNCHANGED creepPaths
          ELSE MoveTo(roster[1].id, creepPos, plan[1],
                      FindPathResults(creepPos, plan[1]))
    /\ UNCHANGED <<tick, creepPos, arenaVars, cats, bi, squadVars, squadTargets, killVars>>
    /\ defenseSites' = {}
    /\ scan' = NoScan
    /\ heals' = NoHeal
    /\ attacks' = NoAttack
    /\ UNCHANGED <<mySpawnFound, probe, firstWaveLaunched>>

\* loop() over an empty roster
PathIdle ==
    /\ Step("pathBehave", "pathEnd")
    /\ roster = <<>>
    /\ UNCHANGED <<pathVars, arenaVars, cats, bi, squadVars, squadTargets, killVars>>
    /\ defenseSites' = {}
    /\ scan' = NoScan
    /\ heals' = NoHeal
    /\ attacks' = NoAttack
    /\ UNCHANGED <<mySpawnFound, probe, firstWaveLaunched>>

\* the arena ends the tick: the move intent succeeds or is delayed (fatigue,
\* a blocked cell); the creep may be destroyed
PathEndTick ==
    /\ Step("pathEnd", "pathCleanup")
    /\ tick < MaxPathTick
    /\ tick' = tick + 1
    /\ lastMove' = NoMove
    /\ \E ok \in BOOLEAN :
          LET to == Cell(creepPos.x + lastMove.direction.dx,
                         creepPos.y + lastMove.direction.dy)
          IN creepPos' = IF ok /\ lastMove.moved /\ to \in Cells THEN to ELSE creepPos
    /\ \E dies \in BOOLEAN :
          /\ roster' = IF dies THEN <<>> ELSE roster
          /\ deaths' = IF dies /\ roster # <<>> THEN deaths + 1 ELSE deaths
    /\ UNCHANGED <<creepPaths, spawned, newborn, spawning, enemies, cats, bi, squadVars,
                   squadTargets, killVars>>
    /\ defenseSites' = {}
    /\ scan' = NoScan
    /\ heals' = NoHeal
    /\ attacks' = NoAttack
    /\ UNCHANGED <<mySpawnFound, probe, firstWaveLaunched>>

\* something other than its own move takes the creep to another cell between
\* two ticks
PathDisplace ==
    /\ pc = "pathCleanup"
    /\ roster # <<>>
    /\ \E c \in Cells \ {creepPos} : creepPos' = c
    /\ UNCHANGED <<tick, creepPaths, lastMove, arenaVars, loopVars, squadVars,
                   squadTargets, killVars>>
    /\ defenseSites' = {}
    /\ scan' = NoScan
    /\ heals' = NoHeal
    /\ attacks' = NoAttack
    /\ UNCHANGED <<mySpawnFound, probe, firstWaveLaunched>>

PathNext == PathCleanup \/ PathHarvest \/ PathIdle \/ PathEndTick \/ PathDisplace

SpecPath == PathInit /\ [][PathNext]_vars

-----------------------------------------------------------------------------
(* Spec: the tick loop over the roster.  Units stand on creepPos whenever a
   behaviour reads their cell, and the pathfinder finds no route: following a
   route is SpecPath's matter. *)

\* the module state and the arena when loop() is first called
FirstTick ==
    /\ tick = 1
    /\ creepPaths = <<>>
    /\ creepPos = Cell(0, 0)
    /\ lastMove = NoMove
    /\ TablesInit
    /\ pc = "cleanupDeadCreepState"
    /\ roster = <<>>
    /\ spawned = 0
    /\ newborn = <<>>
    /\ spawning = FALSE
    /\ enemies = {}
    /\ deaths = 0
    /\ cats = NoCats
    /\ bi = 0
    /\ defenseSites = {}
    /\ scan = NoScan
    /\ mySpawnFound = TRUE
    /\ heals = NoHeal
    /\ attacks = NoAttack
    /\ firstWaveLaunched = FALSE

Init == FirstTick /\ probe = NoProbe

\* the behaviour carries out its plan
Execute(id, plan) ==
    IF plan = Stay
    THEN /\ lastMove' = [NoMove EXCEPT !.creep = id]
         /\ UNCHANGED creepPaths
    ELSE MoveTo(id, creepPos, plan[1], NoRoutes)

CleanupDeadCreepState ==
    /\ Step("cleanupDeadCreepState", "cleanupDeadTargets")
    /\ PruneTables(roster)
    /\ UNCHANGED <<tick, creepPos, lastMove, arenaVars, cats, bi, squadTargets>>
    /\ defenseSites' = {}
    /\ scan' = NoScan
    /\ heals' = NoHeal
    /\ attacks' = NoAttack
    /\ UNCHANGED <<mySpawnFound, probe, firstWaveLaunched>>

\* a loop that goes from the target cleanup straight to the behaviours
CleanupDeadTargetsThenBehave ==
    /\ Step("cleanupDeadTargets", "behaviors")
    /\ squadTargets' = PruneTargets(squadTargets, enemies)
    /\ bi' = 1
    /\ UNCHANGED <<pathVars, arenaVars, cats, squadVars, killVars>>
    /\ defenseSites' = {}
    /\ scan' = NoScan
    /\ heals' = NoHeal
    /\ attacks' = NoAttack
    /\ UNCHANGED <<mySpawnFound, probe, firstWaveLaunched>>

CleanupDeadTargets ==
    /\ Step("cleanupDeadTargets", "categorizeCreeps")
    /\ squadTargets' = PruneTargets(squadTargets, enemies)
    /\ UNCHANGED <<pathVars, arenaVars, cats, bi, squadVars, killVars>>
    /\ defenseSites' = {}
    /\ scan' = NoScan
    /\ heals' = NoHeal
    /\ attacks' = NoAttack
    /\ UNCHANGED <<mySpawnFound, probe, firstWaveLaunched>>

CategorizeCreepsStep ==
    /\ Step("categorizeCreeps", "manageExtensionConstruction")
    /\ cats' = CategorizeCreeps(roster)
    /\ UNCHANGED <<pathVars, arenaVars, bi, squadVars, squadTargets, killVars>>
    /\ defenseSites' = {}
    /\ scan' = NoScan
    /\ heals' = NoHeal
    /\ attacks' = NoAttack
    /\ UNCHANGED <<mySpawnFound, probe, firstWaveLaunched>>

\* requests an extension site from the arena; no core table is touched.
\* room: the arena shows fewer than MAX_EXTENSIONS extensions and sites; the
\* positions of the sites are then read off mySpawn
ManageExtensionConstruction ==
    /\ pc = "manageExtensionConstruction"
    /\ \E room \in BOOLEAN :
          pc' = IF /\ Len(cats.harvesters) >= MIN_HARVESTERS_FOR_EXTENSIONS
                   /\ room
                   /\ ~mySpawnFound
                THEN TypeError
                ELSE "deployKillSquad"
    /\ UNCHANGED <<pathVars, arenaVars, cats, bi, squadVars, squadTargets, killVars>>
    /\ defenseSites' = {}
    /\ scan' = NoScan
    /\ heals' = NoHeal
    /\ attacks' = NoAttack
    /\ UNCHANGED <<mySpawnFound, probe, firstWaveLaunched>>

\* a kill-squad deployment that leaves deployedAttackers as it was
DeployKillSquadUnlisted ==
    /\ Step("deployKillSquad", "deployAttackWaves")
    /\ LET candidates ==
               KillSquadCandidates(cats.attackers, deployedAttackers, killSquadCreeps)
       IN IF /\ ~(mySpawnFound /\ spawning)
             /\ ~killSquadDeployed
             /\ Len(candidates) >= KILL_SQUAD_SIZE
          THEN /\ killSquadCreeps' =
                      killSquadCreeps \cup Ids(Take(candidates, KILL_SQUAD_SIZE))
               /\ UNCHANGED deployedAttackers
               /\ killSquadDeployed' = TRUE
          ELSE UNCHANGED <<killSquadCreeps, deployedAttackers, killSquadDeployed>>
    /\ UNCHANGED <<pathVars, arenaVars, cats, bi, deployedMedics, squadAssignments,
                   squadLeaders, nextSquadIndex, squadTargets, killSquadWaypoint,
                   killSquadReachedWaypoint>>
    /\ defenseSites' = {}
    /\ scan' = NoScan
    /\ heals' = NoHeal
    /\ attacks' = NoAttack
    /\ UNCHANGED <<mySpawnFound, probe, firstWaveLaunched>>

\* a kill-squad deployment that does not look at killSquadDeployed
DeployKillSquadAgain ==
    /\ Step("deployKillSquad", "deployAttackWaves")
    /\ LET candidates ==
               KillSquadCandidates(cats.attackers, deployedAttackers, killSquadCreeps)
       IN IF /\ ~(mySpawnFound /\ spawning)
             /\ Len(candidates) >= KILL_SQUAD_SIZE
          THEN /\ killSquadCreeps' =
                      killSquadCreeps \cup Ids(Take(candidates, KILL_SQUAD_SIZE))
               /\ deployedAttackers' =
                      deployedAttackers \cup Ids(Take(candidates, KILL_SQUAD_SIZE))
               /\ killSquadDeployed' = TRUE
          ELSE UNCHANGED <<killSquadCreeps, deployedAttackers, killSquadDeployed>>
    /\ UNCHANGED <<pathVars, arenaVars, cats, bi, deployedMedics, squadAssignments,
                   squadLeaders, nextSquadIndex, squadTargets, killSquadWaypoint,
                   killSquadReachedWaypoint>>
    /\ defenseSites' = {}
    /\ scan' = NoScan
    /\ heals' = NoHeal
    /\ attacks' = NoAttack
    /\ UNCHANGED <<mySpawnFound, probe, firstWaveLaunched>>

DeployKillSquad ==
    /\ Step("deployKillSquad", "deployAttackWaves")
    /\ LET candidates ==
               KillSquadCandidates(cats.attackers, deployedAttackers, killSquadCreeps)
       IN IF /\ ~(mySpawnFound /\ spawning)
             /\ ~killSquadDeployed
             /\ Len(candidates) >= KILL_SQUAD_SIZE
          THEN /\ killSquadCreeps' =
                      killSquadCreeps \cup Ids(Take(candidates, KILL_SQUAD_SIZE))
               /\ deployedAttackers' =
                      deployedAttackers \cup Ids(Take(candidates, KILL_SQUAD_SIZE))
               /\ killSquadDeployed' = TRUE
          ELSE UNCHANGED <<killSquadCreeps, deployedAttackers, killSquadDeployed>>
    /\ UNCHANGED <<pathVars, arenaVars, cats, bi, deployedMedics, squadAssignments,
                   squadLeaders, nextSquadIndex, squadTargets, killSquadWaypoint,
                   killSquadReachedWaypoint>>
    /\ defenseSites' = {}
    /\ scan' = NoScan
    /\ heals' = NoHeal
    /\ attacks' = NoAttack
    /\ UNCHANGED <<mySpawnFound, probe, firstWaveLaunched>>

\* a wave deployment that does not look at the spawn
DeployAttackWavesWhileSpawning ==
    /\ Step("deployAttackWaves", "manageBuildDefenses")
    /\ LET ua == UndeployedAttackers(cats.attackers, deployedAttackers, killSquadCreeps)
           um == UndeployedMedics(cats.medics, deployedMedics)
           t == FormSquad(ua, um, deployedAttackers, deployedMedics, squadAssignments,
                          squadLeaders, nextSquadIndex)
       IN IF SquadReady(ua, um)
          THEN /\ deployedAttackers' = t.deployedAttackers
               /\ deployedMedics' = t.deployedMedics
               /\ squadAssignments' = t.squadAssignments
               /\ squadLeaders' = t.squadLeaders
               /\ nextSquadIndex' = t.nextSquadIndex
          ELSE UNCHANGED squadVars
    /\ UNCHANGED <<pathVars, arenaVars, cats, bi, squadTargets, killVars>>
    /\ defenseSites' = {}
    /\ scan' = NoScan
    /\ heals' = NoHeal
    /\ attacks' = NoAttack
    /\ UNCHANGED <<mySpawnFound, probe, firstWaveLaunched>>

DeployAttackWaves ==
    /\ Step("deployAttackWaves", "manageBuildDefenses")
    /\ LET ua == UndeployedAttackers(cats.attackers, deployedAttackers, killSquadCreeps)
           um == UndeployedMedics(cats.medics, deployedMedics)
           t == FormSquad(ua, um, deployedAttackers, deployedMedics, squadAssignments,
                          squadLeaders, nextSquadIndex)
       IN IF ~(mySpawnFound /\ spawning) /\ SquadReady(ua, um)
          THEN /\ deployedAttackers' = t.deployedAttackers
               /\ deployedMedics' = t.deployedMedics
               /\ squadAssignments' = t.squadAssignments
               /\ squadLeaders' = t.squadLeaders
               /\ nextSquadIndex' = t.nextSquadIndex
          ELSE UNCHANGED squadVars
    /\ UNCHANGED <<pathVars, arenaVars, cats, bi, squadTargets, killVars>>
    /\ defenseSites' = {}
    /\ scan' = NoScan
    /\ heals' = NoHeal
    /\ attacks' = NoAttack
    /\ UNCHANGED <<mySpawnFound, probe, firstWaveLaunched>>

\* a defence builder that does not wait for the first squad
BuildDefensesUngated(index, noTowers, noSites) ==
    IF noTowers /\ noSites
    THEN {[x |-> MySpawn.x + 2, y |-> MySpawn.y, kind |-> "tower"],
          [x |-> MySpawn.x, y |-> MySpawn.y, kind |-> "rampart"]}
    ELSE {}

\* the createConstructionSite calls of manageBuildDefenses
BuildDefenses(index, noTowers, noSites) ==
    IF index >= 1 /\ noTowers /\ noSites
    THEN {[x |-> MySpawn.x + 2, y |-> MySpawn.y, kind |-> "tower"],
          [x |-> MySpawn.x, y |-> MySpawn.y, kind |-> "rampart"]}
    ELSE {}

\* requests tower and rampart sites from the arena; no core table is touched.
\* noTowers, noSites: what getObjectsByPrototype finds of own towers and sites
ManageBuildDefenses ==
    /\ pc = "manageBuildDefenses"
    /\ \E noTowers \in BOOLEAN, noSites \in BOOLEAN :
          LET sites == BuildDefenses(nextSquadIndex, noTowers, noSites)
          IN IF sites # {} /\ ~mySpawnFound
             THEN pc' = TypeError /\ defenseSites' = {}
             ELSE pc' = "executeSpawnStrategy" /\ defenseSites' = sites
    /\ UNCHANGED <<pathVars, arenaVars, cats, bi, squadVars, squadTargets, killVars>>
    /\ scan' = NoScan
    /\ heals' = NoHeal
    /\ attacks' = NoAttack
    /\ UNCHANGED <<mySpawnFound, probe, firstWaveLaunched>>

\* spawnCreep(loadout): the spawn holds the energy whenever it is asked
ExecuteSpawnStrategy ==
    /\ Step("executeSpawnStrategy", "initializeTargetWalls")
    /\ IF mySpawnFound /\ ~spawning /\ spawned < MaxCreeps
       THEN /\ newborn' = <<[id |-> CreepId(spawned + 1),
                             body |-> SpawnBody(cats.harvesters, cats.attackers,
                                                cats.medics, deployedAttackers,
                                                deployedMedics, killSquadCreeps)]>>
            /\ spawned' = spawned + 1
            /\ spawning' = TRUE
       ELSE UNCHANGED <<newborn, spawned, spawning>>
    /\ UNCHANGED <<pathVars, roster, enemies, deaths, cats, bi, squadVars, squadTargets,
                   killVars>>
    /\ defenseSites' = {}
    /\ scan' = NoScan
    /\ heals' = NoHeal
    /\ attacks' = NoAttack
    /\ UNCHANGED <<mySpawnFound, probe, firstWaveLaunched>>

\* targetWalls is empty until walls are found at the positions listed for the
\* two spawn positions of the arena, neither of which is MySpawn's: every call
\* reads mySpawn.x
InitializeTargetWalls ==
    /\ pc = "initializeTargetWalls"
    /\ IF mySpawnFound
       THEN pc' = "behaviors" /\ bi' = 1
       ELSE pc' = TypeError /\ UNCHANGED bi
    /\ UNCHANGED <<pathVars, arenaVars, cats, squadVars, squadTargets, killVars>>
    /\ defenseSites' = {}
    /\ scan' = NoScan
    /\ heals' = NoHeal
    /\ attacks' = NoAttack
    /\ UNCHANGED <<mySpawnFound, probe, firstWaveLaunched>>

CurrentCreep == roster[bi]

Behaving == pc = "behaviors" /\ bi <= Len(roster)

RunHarvesterBehavior ==
    /\ Behaving
    /\ HasPart(CurrentCreep, CARRY)
    /\ \E plan \in HarvesterPlans(enemies) : Execute(CurrentCreep.id, plan)
    /\ bi' = bi + 1
    /\ UNCHANGED <<tick, creepPos, arenaVars, pc, cats, squadVars, squadTargets,
                   killVars>>
    /\ defenseSites' = {}
    /\ scan' = NoScan
    /\ heals' = NoHeal
    /\ attacks' = NoAttack
    /\ UNCHANGED <<mySpawnFound, probe, firstWaveLaunched>>

RunMedicBehavior ==
    /\ Behaving
    /\ ~HasPart(CurrentCreep, CARRY)
    /\ HasPart(CurrentCreep, HEAL)
    /\ \E plan \in MedicPlans(CurrentCreep.id, roster, enemies, squadAssignments,
                              squadLeaders, deployedAttackers, deployedMedics,
                              killSquadCreeps) :
          /\ Execute(CurrentCreep.id, plan)
          /\ \E h \in MedicHeals(CurrentCreep.id, roster, squadAssignments, squadLeaders,
                                  deployedAttackers, deployedMedics, killSquadCreeps,
                                  plan) :
                heals' = <<h>>
    /\ bi' = bi + 1
    /\ UNCHANGED <<tick, creepPos, arenaVars, pc, cats, squadVars, squadTargets,
                   killVars>>
    /\ defenseSites' = {}
    /\ scan' = NoScan
    /\ attacks' = NoAttack
    /\ UNCHANGED <<mySpawnFound, probe, firstWaveLaunched>>

IsAttackerTurn ==
    Behaving /\ ~HasPart(CurrentCreep, CARRY) /\ ~HasPart(CurrentCreep, HEAL)

\* a for loop that does not move on from a reserve fighter
RunReserveAttackerAgain ==
    /\ IsAttackerTurn
    /\ CurrentCreep.id \notin deployedAttackers
    /\ \E plan \in ReservePlans(enemies) : Execute(CurrentCreep.id, plan)
    /\ bi' = bi
    /\ UNCHANGED <<tick, creepPos, arenaVars, pc, cats, squadVars, squadTargets,
                   killVars>>
    /\ defenseSites' = {}
    /\ scan' = NoScan
    /\ heals' = NoHeal
    /\ attacks' = NoAttack
    /\ UNCHANGED <<mySpawnFound, probe, firstWaveLaunched>>


\* runAttackerBehavior of a creep not deployed
RunReserveAttacker ==
    /\ IsAttackerTurn
    /\ CurrentCreep.id \notin deployedAttackers
    /\ \E plan \in ReservePlans(enemies) : Execute(CurrentCreep.id, plan)
    /\ bi' = bi + 1
    /\ UNCHANGED <<tick, creepPos, arenaVars, pc, cats, squadVars, squadTargets,
                   killVars>>
    /\ defenseSites' = {}
    /\ scan' = NoScan
    /\ heals' = NoHeal
    /\ attacks' = NoAttack
    /\ UNCHANGED <<mySpawnFound, probe, firstWaveLaunched>>

\* what a fighter of a named squad did beside its plan. regrouping: it found
\* its leader beyond SQUAD_COHESION_RANGE; target: what it called creep.attack
\* on, or null
Struck(id, regrouping, target) == [creep |-> id, regrouping |-> regrouping, target |-> target]

\* runAttackerBehavior, deployed branch of a named-squad member within cohesion
\* range: what it may call creep.attack on beside the plan. A fighter that
\* stays has something at range 1 and strikes it; one that moves strikes nothing
EngageStrikes(id, allEnemies, sa, st, plan) ==
    IF plan # Stay THEN {NoId}
    ELSE IF GetSquadTarget(id, sa, st, allEnemies) # NoId THEN allEnemies
    ELSE allEnemies \cup {EnemySpawn.id}

\* a separated follower that makes for the enemy base instead of its leader
RunSquadAttackerChasing ==
    /\ IsAttackerTurn
    /\ CurrentCreep.id \in deployedAttackers
    /\ CurrentCreep.id \notin killSquadCreeps
    /\ LET id == CurrentCreep.id
           leader == GetSquadLeader(id, roster, squadAssignments, squadLeaders)
           isLeader == IsSquadLeader(id, squadAssignments, squadLeaders)
       IN \/ /\ ~isLeader /\ leader # NoId          \* rangeToLeader > SQUAD_COHESION_RANGE
             /\ Execute(id, Go(EnemySpawn))
             /\ UNCHANGED squadTargets
             /\ scan' = NoScan
             /\ \E nearbyEnemy \in enemies \cup {NoId} :     \* findNearestEnemy(creep, 1)
                   attacks' = <<Struck(id, TRUE, nearbyEnemy)>>
          \/ \E nearestEnemy \in enemies \cup {NoId} :
                LET st == IF isLeader
                          THEN SetSquadTarget(squadTargets, id, squadAssignments,
                                              nearestEnemy)
                          ELSE squadTargets
                IN /\ squadTargets' = st
                   /\ scan' = IF isLeader THEN <<nearestEnemy>> ELSE NoScan
                   /\ \E plan \in EngagePlans(id, roster, enemies, squadAssignments,
                                              squadLeaders, st) :
                         /\ Execute(id, plan)
                         /\ \E target \in EngageStrikes(id, enemies, squadAssignments,
                                                        st, plan) :
                               attacks' = <<Struck(id, FALSE, target)>>
    /\ bi' = bi + 1
    /\ UNCHANGED <<tick, creepPos, arenaVars, pc, cats, squadVars, killVars>>
    /\ defenseSites' = {}
    /\ heals' = NoHeal
    /\ UNCHANGED <<mySpawnFound, probe, firstWaveLaunched>>

\* runAttackerBehavior of a deployed creep outside the kill squad
RunSquadAttacker ==
    /\ IsAttackerTurn
    /\ CurrentCreep.id \in deployedAttackers
    /\ CurrentCreep.id \notin killSquadCreeps
    /\ LET id == CurrentCreep.id
           leader == GetSquadLeader(id, roster, squadAssignments, squadLeaders)
           isLeader == IsSquadLeader(id, squadAssignments, squadLeaders)
       IN \/ /\ ~isLeader /\ leader # NoId          \* rangeToLeader > SQUAD_COHESION_RANGE
             /\ Execute(id, Go(CreepAt(leader, Elsewhere)))
             /\ UNCHANGED squadTargets
             /\ scan' = NoScan
             /\ \E nearbyEnemy \in enemies \cup {NoId} :     \* findNearestEnemy(creep, 1)
                   attacks' = <<Struck(id, TRUE, nearbyEnemy)>>
          \/ \E nearestEnemy \in enemies \cup {NoId} :
                LET st == IF isLeader
                          THEN SetSquadTarget(squadTargets, id, squadAssignments,
                                              nearestEnemy)
                          ELSE squadTargets
                IN /\ squadTargets' = st
                   /\ scan' = IF isLeader THEN <<nearestEnemy>> ELSE NoScan
                   /\ \E plan \in EngagePlans(id, roster, enemies, squadAssignments,
                                              squadLeaders, st) :
                         /\ Execute(id, plan)
                         /\ \E target \in EngageStrikes(id, enemies, squadAssignments,
                                                        st, plan) :
                               attacks' = <<Struck(id, FALSE, target)>>
    /\ bi' = bi + 1
    /\ UNCHANGED <<tick, creepPos, arenaVars, pc, cats, squadVars, killVars>>
    /\ defenseSites' = {}
    /\ heals' = NoHeal
    /\ UNCHANGED <<mySpawnFound, probe, firstWaveLaunched>>

\* a kill squad that works its waypoint out afresh in every step
RunKillSquadBehaviorRecomputing ==
    /\ IsAttackerTurn
    /\ CurrentCreep.id \in deployedAttackers
    /\ CurrentCreep.id \in killSquadCreeps
    /\ \E shortestPath \in ShortestPaths, near \in BOOLEAN, atSpawn \in BOOLEAN :
          LET id == CurrentCreep.id
              waypoint == CalculateKillSquadWaypoint(EnemySpawnX, shortestPath)
              hasReachedWaypoint == id \in killSquadReachedWaypoint
          IN /\ killSquadWaypoint' = waypoint
             /\ IF waypoint = <<>>
                THEN /\ Execute(id, Stay)
                     /\ UNCHANGED killSquadReachedWaypoint
                ELSE /\ killSquadReachedWaypoint' =
                            IF ~hasReachedWaypoint /\ near
                            THEN killSquadReachedWaypoint \cup {id}
                            ELSE killSquadReachedWaypoint
                     /\ IF ~hasReachedWaypoint /\ ~near
                        THEN Execute(id, Go(Position(waypoint[1])))
                        ELSE Execute(id, IF atSpawn THEN Stay ELSE Go(EnemySpawn))
    /\ bi' = bi + 1
    /\ UNCHANGED <<tick, creepPos, arenaVars, pc, cats, squadVars, squadTargets,
                   killSquadDeployed, killSquadCreeps>>
    /\ defenseSites' = {}
    /\ scan' = NoScan
    /\ heals' = NoHeal
    /\ attacks' = NoAttack
    /\ UNCHANGED <<mySpawnFound, probe, firstWaveLaunched>>


\* a kill squad that heads for the waypoint whenever it is far from it
RunKillSquadBehaviorOneStage ==
    /\ IsAttackerTurn
    /\ CurrentCreep.id \in deployedAttackers
    /\ CurrentCreep.id \in killSquadCreeps
    /\ \E shortestPath \in ShortestPaths, near \in BOOLEAN, atSpawn \in BOOLEAN :
          LET id == CurrentCreep.id
              waypoint == IF killSquadWaypoint = <<>>
                          THEN CalculateKillSquadWaypoint(EnemySpawnX, shortestPath)
                          ELSE killSquadWaypoint
              hasReachedWaypoint == id \in killSquadReachedWaypoint
          IN /\ killSquadWaypoint' = waypoint
             /\ IF waypoint = <<>>
                THEN /\ Execute(id, Stay)
                     /\ UNCHANGED killSquadReachedWaypoint
                ELSE /\ killSquadReachedWaypoint' =
                            IF ~hasReachedWaypoint /\ near
                            THEN killSquadReachedWaypoint \cup {id}
                            ELSE killSquadReachedWaypoint
                     /\ IF ~near
                        THEN Execute(id, Go(Position(waypoint[1])))
                        ELSE Execute(id, IF atSpawn THEN Stay ELSE Go(EnemySpawn))
    /\ bi' = bi + 1
    /\ UNCHANGED <<tick, creepPos, arenaVars, pc, cats, squadVars, squadTargets,
                   killSquadDeployed, killSquadCreeps>>
    /\ defenseSites' = {}
    /\ scan' = NoScan
    /\ heals' = NoHeal
    /\ attacks' = NoAttack
    /\ UNCHANGED <<mySpawnFound, probe, firstWaveLaunched>>


\* runKillSquadBehavior
RunKillSquadBehavior ==
    /\ IsAttackerTurn
    /\ CurrentCreep.id \in deployedAttackers
    /\ CurrentCreep.id \in killSquadCreeps
    /\ \E shortestPath \in ShortestPaths, near \in BOOLEAN, atSpawn \in BOOLEAN :
          LET id == CurrentCreep.id
              waypoint == IF killSquadWaypoint = <<>>
                          THEN CalculateKillSquadWaypoint(EnemySpawnX, shortestPath)
                          ELSE killSquadWaypoint
              hasReachedWaypoint == id \in killSquadReachedWaypoint
          IN /\ killSquadWaypoint' = waypoint
             /\ IF waypoint = <<>>
                THEN /\ Execute(id, Stay)
                     /\ UNCHANGED killSquadReachedWaypoint
                ELSE /\ killSquadReachedWaypoint' =
                            IF ~hasReachedWaypoint /\ near
                            THEN killSquadReachedWaypoint \cup {id}
                            ELSE killSquadReachedWaypoint
                     /\ IF ~hasReachedWaypoint /\ ~near
                        THEN Execute(id, Go(Position(waypoint[1])))
                        ELSE Execute(id, IF atSpawn THEN Stay ELSE Go(EnemySpawn))
    /\ bi' = bi + 1
    /\ UNCHANGED <<tick, creepPos, arenaVars, pc, cats, squadVars, squadTargets,
                   killSquadDeployed, killSquadCreeps>>
    /\ defenseSites' = {}
    /\ scan' = NoScan
    /\ heals' = NoHeal
    /\ attacks' = NoAttack
    /\ UNCHANGED <<mySpawnFound, probe, firstWaveLaunched>>

\* runTowerBehavior: towers fire at the enemy closest to the spawn
RunTowerBehavior ==
    /\ pc = "behaviors" /\ bi > Len(roster)
    /\ pc' = "end"
    /\ UNCHANGED <<pathVars, arenaVars, cats, bi, squadVars, squadTargets, killVars>>
    /\ defenseSites' = {}
    /\ scan' = NoScan
    /\ heals' = NoHeal
    /\ attacks' = NoAttack
    /\ UNCHANGED <<mySpawnFound, probe, firstWaveLaunched>>

\* the arena resolves the tick: the spawn delivers the creep it was building and
\* is busy for one more tick; from FirstRaidTick on enemies come and go, and
\* they destroy creeps that were sent out against them
EndTick ==
    /\ pc = "end"
    /\ tick < MaxTick
    /\ tick' = tick + 1
    /\ pc' = "cleanupDeadCreepState"
    /\ \E dead \in SUBSET (Ids(roster) \cap (deployedAttackers \cup deployedMedics)) :
          /\ dead # {} => tick >= FirstRaidTick
          /\ deaths + Cardinality(dead) <= MaxDeaths
          /\ deaths' = deaths + Cardinality(dead)
          /\ roster' = SelectSeq(roster, LAMBDA c : c.id \notin dead) \o newborn
    /\ newborn' = <<>>
    /\ spawning' = (newborn # <<>>)
    /\ enemies' \in (IF tick + 1 >= FirstRaidTick THEN SUBSET EnemyIds ELSE {{}})
    /\ cats' = NoCats
    /\ bi' = 0
    /\ lastMove' = NoMove
    /\ UNCHANGED <<creepPaths, creepPos, spawned, squadVars, squadTargets,
                   killVars>>
    /\ defenseSites' = {}
    /\ scan' = NoScan
    /\ heals' = NoHeal
    /\ attacks' = NoAttack
    /\ UNCHANGED <<mySpawnFound, probe, firstWaveLaunched>>

Next ==
    \/ CleanupDeadCreepState
    \/ CleanupDeadTargets
    \/ CategorizeCreepsStep
    \/ ManageExtensionConstruction
    \/ DeployKillSquad
    \/ DeployAttackWaves
    \/ ManageBuildDefenses
    \/ ExecuteSpawnStrategy
    \/ InitializeTargetWalls
    \/ RunHarvesterBehavior
    \/ RunMedicBehavior
    \/ RunReserveAttacker
    \/ RunSquadAttacker
    \/ RunKillSquadBehavior
    \/ RunTowerBehavior
    \/ EndTick

Spec == Init /\ [][Next]_vars

-----------------------------------------------------------------------------
(* Properties of cachedMoveTo *)

\* a step of the model in which a behaviour called cachedMoveTo once, for the
\* creep lastMove'.creep standing on creepPos, toward the key lastMove'.target
CallStep ==
    /\ lastMove'.calls = 1
    /\ \/ Step("pathBehave", "pathEnd")
       \/ pc = "behaviors" /\ bi' = bi + 1

WithinThreshold(step) ==
    Chebyshev(creepPos.x, creepPos.y, step.x, step.y) <= OFFPATH_DETECTION_THRESHOLD

\* the entry of creep id before the call may be followed toward key
Reusable(id, key) ==
    /\ id \in DOMAIN creepPaths
    /\ creepPaths[id].target = key
    /\ tick - creepPaths[id].tick < PATH_REFRESH_INTERVAL
    /\ creepPaths[id].pathIndex < Len(creepPaths[id].path)
    /\ \/ creepPaths[id].pathIndex = 0
       \/ WithinThreshold(creepPaths[id].path[creepPaths[id].pathIndex])

\* C5, as the code has it: cachedMoveTo reuses the entry (findPath is not
\* called) exactly when the target key is the entry's, the entry is younger
\* than PATH_REFRESH_INTERVAL, the cursor is below the step list's length, and
\* either the cursor is 0 or the creep is within OFFPATH_DETECTION_THRESHOLD of
\* the step before the cursor; otherwise findPath is called, and a move issued
\* in that call is taken from the entry installed by it.
C5_ReuseOnlyWhenValid ==
    [][CallStep =>
          /\ lastMove'.findPathCalled <=> ~Reusable(lastMove'.creep, lastMove'.target)
          /\ (lastMove'.findPathCalled /\ lastMove'.moved) =>
                (lastMove'.stepTick = tick /\ lastMove'.stepIndex = 0)]_vars

\* C5 as stated: a reused entry has the creep within the threshold of the step
\* the cursor predicts, read as generously as the words allow (the step at the
\* cursor, or the step before it).
C5_AsStated ==
    [][(CallStep /\ ~lastMove'.findPathCalled) =>
          LET cache == creepPaths[lastMove'.creep]
          IN /\ cache.target = lastMove'.target
             /\ tick - cache.tick < PATH_REFRESH_INTERVAL
             /\ cache.pathIndex < Len(cache.path)
             /\ \/ WithinThreshold(cache.path[cache.pathIndex + 1])
                \/ /\ cache.pathIndex > 0
                   /\ WithinThreshold(cache.path[cache.pathIndex])]_vars

\* an entry was reused with its cursor past the first step: the drift check ran
\* and let the entry stand
C5_Witness ==
    /\ lastMove.calls = 1
    /\ ~lastMove.findPathCalled
    /\ lastMove.moved
    /\ lastMove.stepIndex = 1

\* C6: a call that meets an entry of age >= PATH_REFRESH_INTERVAL calls
\* findPath, and any step it follows comes from an entry stamped with the
\* current tick; a step is followed only from an entry younger than the
\* interval.
C6_StaleNeverFollowed ==
    [][CallStep =>
          /\ (lastMove'.creep \in DOMAIN creepPaths
                 /\ tick - creepPaths[lastMove'.creep].tick >= PATH_REFRESH_INTERVAL)
                => (lastMove'.findPathCalled
                       /\ (lastMove'.moved => lastMove'.stepTick = tick))
          /\ lastMove'.moved => tick - lastMove'.stepTick < PATH_REFRESH_INTERVAL]_vars

\* a call met a stale entry and asked the pathfinder again
C6_Witness ==
    /\ lastMove.calls = 1
    /\ lastMove.findPathCalled
    /\ lastMove.creep \in DOMAIN creepPaths
    /\ tick - creepPaths[lastMove.creep].tick >= PATH_REFRESH_INTERVAL

\* C7: every entry has 0 <= pathIndex <= path.length, and the step a call
\* reads lies inside the step list of the entry it is read from.
C7_CursorInBounds ==
    /\ \A id \in DOMAIN creepPaths :
          /\ 0 <= creepPaths[id].pathIndex
          /\ creepPaths[id].pathIndex <= Len(creepPaths[id].path)
    /\ lastMove.moved =>
          /\ 0 <= lastMove.stepIndex
          /\ lastMove.stepIndex < Len(creepPaths[lastMove.creep].path)

\* the cursor stands at the end of the step list
C7_Witness ==
    \E id \in DOMAIN creepPaths :
       /\ creepPaths[id].path # <<>>
       /\ creepPaths[id].pathIndex = Len(creepPaths[id].path)

\* the call installed a new entry for the creep
Installed == lastMove'.findPathCalled /\ ~lastMove'.noPath

C9_NoPathIsNoOp ==
    [][(CallStep /\ lastMove'.noPath) =>
          /\ ~lastMove'.moved
          /\ creepPaths' = creepPaths
          /\ pc' = "pathEnd"]_vars

\* the gatherer asked for a route to its source, got none, and kept the entry
\* it had
C9_Witness ==
    /\ lastMove.noPath
    /\ lastMove.target = "source"
    /\ lastMove.creep \in DOMAIN creepPaths
    /\ pc = "pathEnd"

-----------------------------------------------------------------------------
(* SpecGame: the roster loop and the gatherer loop side by side, so that a
   property of the tables is checked both where squads form and where a path
   cache entry exists *)

GameInit == Init \/ PathInit

GameNext == Next \/ PathNext

SpecGame == GameInit /\ [][GameNext]_vars

-----------------------------------------------------------------------------
(* One call of loop() on a roster the arena hands it: own creeps of any
   loadout, the four the spawn builds, a body with no working part and bodies
   that mix the parts of two roles *)

MaxGiven == 2

GivenLoadouts ==
    {HarvesterBody, KillSquadBody, MedicBody, AttackerBody,
     <<MOVE>>, <<MOVE, CARRY, ATTACK>>, <<MOVE, HEAL, RANGED_ATTACK>>}

\* getObjectsByPrototype(Creep).filter(c => c.my)
Rosters ==
    UNION {{[i \in 1..n |-> [id |-> CreepId(i), body |-> f[i]]] :
               f \in [1..n -> GivenLoadouts]} :
           n \in 1..MaxGiven}

RosterInit ==
    /\ tick = 1
    /\ creepPaths = <<>>
    /\ creepPos = Cell(0, 0)
    /\ lastMove = NoMove
    /\ TablesInit
    /\ pc = "cleanupDeadCreepState"
    /\ roster \in Rosters
    /\ spawned = Len(roster)
    /\ newborn = <<>>
    /\ spawning = FALSE
    /\ enemies = {}
    /\ deaths = 0
    /\ cats = NoCats
    /\ bi = 0
    /\ defenseSites = {}
    /\ scan = NoScan
    /\ mySpawnFound \in BOOLEAN
    /\ heals = NoHeal
    /\ attacks = NoAttack
    /\ firstWaveLaunched = FALSE
    /\ probe = NoProbe

\* loop(), once; no squad of ATTACKERS_PER_SQUAD fighters forms from so few
RosterNext ==
    \/ CleanupDeadCreepState
    \/ CleanupDeadTargets
    \/ CategorizeCreepsStep
    \/ ManageExtensionConstruction
    \/ DeployKillSquad
    \/ DeployAttackWaves
    \/ ManageBuildDefenses
    \/ ExecuteSpawnStrategy
    \/ InitializeTargetWalls
    \/ RunHarvesterBehavior
    \/ RunMedicBehavior
    \/ RunReserveAttacker
    \/ RunKillSquadBehavior
    \/ RunTowerBehavior

SpecRoster == RosterInit /\ [][RosterNext]_vars

-----------------------------------------------------------------------------
(* SpecWaves: one call of loop() late in a game. The first squad was formed
   whole, the squads formed after it are gone, and so are the gatherers and
   the kill squad; what is left of the first squad stands beside the creeps
   the spawn has delivered since *)

\* squads formed so far: the first only, all but the last name of the alphabet
\* given out, and every name given out once
WaveCounts == {1, Len(NATO_ALPHABET) - 1, Len(NATO_ALPHABET)}

MaxArrivals == 4       \* creeps delivered since the last squad was formed

\* the first squad as deployAttackWaves formed it
FirstSquad ==
    [i \in 1..(ATTACKERS_PER_SQUAD + MEDICS_PER_SQUAD) |->
        [id |-> CreepId(i),
         body |-> IF i <= ATTACKERS_PER_SQUAD THEN AttackerBody ELSE MedicBody]]

\* the creeps of the first squad the arena still lists, in roster order
Survivors(alive) == SelectSeq(FirstSquad, LAMBDA c : c.id \in alive)

\* the loadouts executeSpawnStrategy orders once the kill squad was built
Arrivals ==
    UNION {{[i \in 1..n |-> [id |-> CreepId(Len(FirstSquad) + i), body |-> f[i]]] :
               f \in [1..n -> {AttackerBody, MedicBody}]} :
           n \in 0..MaxArrivals}

WavesInit ==
    /\ tick = 1
    /\ creepPaths = <<>>
    /\ creepPos = Cell(0, 0)
    /\ lastMove = NoMove
    /\ pc = "cleanupDeadCreepState"
    /\ \E alive \in SUBSET Ids(FirstSquad), arrived \in Arrivals :
          /\ roster = Survivors(alive) \o arrived
          /\ spawned = Len(FirstSquad) + Len(arrived)
    /\ newborn = <<>>
    /\ spawning \in BOOLEAN
    /\ enemies = {}
    /\ deaths = 0
    /\ cats = NoCats
    /\ bi = 0
    /\ deployedAttackers = {FirstSquad[i].id : i \in 1..ATTACKERS_PER_SQUAD}
    /\ deployedMedics = Ids(FirstSquad) \ deployedAttackers
    /\ squadAssignments = [id \in Ids(FirstSquad) |-> SquadName(0)]
    /\ squadLeaders = [s \in {SquadName(0)} |-> FirstSquad[1].id]
    /\ squadTargets = [s \in {SquadName(0)} |-> NoId]
    /\ nextSquadIndex \in WaveCounts
    /\ killSquadDeployed = TRUE
    /\ killSquadCreeps = {}
    /\ killSquadWaypoint = <<>>
    /\ killSquadReachedWaypoint = {}
    /\ defenseSites = {}
    /\ scan = NoScan
    /\ mySpawnFound = TRUE
    /\ heals = NoHeal
    /\ attacks = NoAttack
    /\ firstWaveLaunched = FALSE
    /\ probe = NoProbe

\* loop(), once; the roster holds no gatherer and no kill-squad creep
WavesNext ==
    \/ CleanupDeadCreepState
    \/ CleanupDeadTargets
    \/ CategorizeCreepsStep
    \/ ManageExtensionConstruction
    \/ DeployKillSquad
    \/ DeployAttackWaves
    \/ ManageBuildDefenses
    \/ ExecuteSpawnStrategy
    \/ InitializeTargetWalls
    \/ RunMedicBehavior
    \/ RunReserveAttacker
    \/ RunSquadAttacker
    \/ RunTowerBehavior

SpecWaves == WavesInit /\ [][WavesNext]_vars

-----------------------------------------------------------------------------
(* SpecStrike: the game of Spec, and beside it the last call of loop() of a
   game in which creeps of the kill squad fell early and the spawn has built
   creeps of the same loadout in their place *)

\* the kill squad as deployKillSquad formed it
KillSquad ==
    [i \in 1..KILL_SQUAD_SIZE |->
        [id |-> CreepId(TARGET_HARVESTER_COUNT + i), body |-> KillSquadBody]]

Gatherers == [i \in 1..TARGET_HARVESTER_COUNT |-> [id |-> CreepId(i), body |-> HarvesterBody]]

\* executeSpawnStrategy orders the loadout while fewer than KILL_SQUAD_SIZE
\* creeps carry it
Replacements(n) ==
    [i \in 1..n |->
        [id |-> CreepId(TARGET_HARVESTER_COUNT + KILL_SQUAD_SIZE + i),
         body |-> KillSquadBody]]

StrikeInit ==
    /\ tick = MaxTick
    /\ creepPaths = <<>>
    /\ creepPos = Cell(0, 0)
    /\ lastMove = NoMove
    /\ pc = "cleanupDeadCreepState"
    /\ \E alive \in SUBSET Ids(KillSquad) :
          \E n \in 0..(KILL_SQUAD_SIZE - Cardinality(alive)) :
             /\ roster = Gatherers
                            \o SelectSeq(KillSquad, LAMBDA c : c.id \in alive)
                            \o Replacements(n)
             /\ spawned = Len(Gatherers) + Len(KillSquad) + n
             /\ deaths = KILL_SQUAD_SIZE - Cardinality(alive)
             /\ deployedAttackers = alive
             /\ killSquadCreeps = alive
    /\ newborn = <<>>
    /\ spawning \in BOOLEAN
    /\ enemies = {}
    /\ cats = NoCats
    /\ bi = 0
    /\ deployedMedics = {}
    /\ squadAssignments = <<>>
    /\ squadLeaders = <<>>
    /\ squadTargets = <<>>
    /\ nextSquadIndex = 0
    /\ killSquadDeployed = TRUE
    /\ killSquadWaypoint = <<>>
    /\ killSquadReachedWaypoint = {}
    /\ defenseSites = {}
    /\ scan = NoScan
    /\ mySpawnFound = TRUE
    /\ heals = NoHeal
    /\ attacks = NoAttack
    /\ firstWaveLaunched = FALSE
    /\ probe = NoProbe

SpecStrike == (Init \/ StrikeInit) /\ [][Next]_vars

-----------------------------------------------------------------------------
(* SpecProgress: one creep that calls cachedMoveTo in every tick, toward one
   coordinate, in an arena where findPath answers with a shortest path from
   the cell the creep stands on and every move the creep issues is carried
   out *)

MaxProgressTick == 10          \* SpecProgress stops the clock here

\* findPath(creep, target, opts) over open terrain: the step lists that end on
\* the target, none of them when the creep stands on it
PathsTo(from, target) ==
    IF from = target THEN {[isNull |-> FALSE, steps |-> <<>>]}
    ELSE {[isNull |-> FALSE, steps |-> w] :
            w \in {v \in Walks(from, target,
                                Chebyshev(from.x, from.y, target.x, target.y)) :
                      v[Len(v)] = target}}

Destination == probe.target

\* the first tick in which the creep acts: no path was asked for yet
ControllerInit(start) ==
    /\ tick = 1
    /\ creepPaths = <<>>
    /\ creepPos \in Cells
    /\ lastMove = NoMove
    /\ TablesInit
    /\ pc = start
    /\ roster = <<PathCreep>>
    /\ spawned = 1
    /\ newborn = <<>>
    /\ spawning = FALSE
    /\ enemies = {}
    /\ deaths = 0
    /\ cats = NoCats
    /\ bi = 0
    /\ defenseSites = {}
    /\ scan = NoScan
    /\ mySpawnFound = TRUE
    /\ heals = NoHeal
    /\ attacks = NoAttack
    /\ firstWaveLaunched = FALSE
    /\ probe \in {[fn |-> "cachedMoveTo", target |-> c] : c \in Cells}

ProgressInit == ControllerInit("progressCall")

\* cachedMoveTo(creep, {x, y})
ProgressCall ==
    /\ Step("progressCall", "progressEnd")
    /\ MoveTo(PathCreep.id, creepPos, Position(Destination),
              PathsTo(creepPos, Destination))
    /\ UNCHANGED <<tick, creepPos, arenaVars, cats, bi, squadVars, squadTargets,
                   killVars>>
    /\ defenseSites' = {}
    /\ scan' = NoScan
    /\ heals' = NoHeal
    /\ attacks' = NoAttack
    /\ UNCHANGED <<mySpawnFound, probe, firstWaveLaunched>>

\* the arena ends the tick and carries out the move the creep issued; a move
\* without a direction leaves it where it is
ProgressEndTick ==
    /\ Step("progressEnd", "progressCall")
    /\ tick < MaxProgressTick
    /\ tick' = tick + 1
    /\ lastMove' = NoMove
    /\ LET to == Cell(creepPos.x + lastMove.direction.dx,
                      creepPos.y + lastMove.direction.dy)
       IN creepPos' = IF lastMove.moved /\ to \in Cells THEN to ELSE creepPos
    /\ UNCHANGED <<creepPaths, arenaVars, cats, bi, squadVars, squadTargets, killVars>>
    /\ defenseSites' = {}
    /\ scan' = NoScan
    /\ heals' = NoHeal
    /\ attacks' = NoAttack
    /\ UNCHANGED <<mySpawnFound, probe, firstWaveLaunched>>

ProgressNext == ProgressCall \/ ProgressEndTick

\* the game runs loop() tick after tick
SpecProgress == ProgressInit /\ [][ProgressNext]_vars /\ WF_vars(ProgressNext)

-----------------------------------------------------------------------------
(* SpecChecked: the movement controller of the wave variant
   (src/unnamed/part_004), which asks whether the creep stands where the
   cached path expects it. One creep calls it in every tick toward one
   coordinate; a move may be delayed by fatigue or a blocked cell *)

MaxControllerTick == 12        \* SpecChecked and SpecEarliest stop the clock here

\* part_004: const PATH_REFRESH_INTERVAL = 6
CHECKED_PATH_REFRESH_INTERVAL == 6

\* pathCache && pathCache.pathIndex > 0 && pathCache.pathIndex < path.length &&
\* pathCache.path[pathCache.pathIndex - 1] is the cell of the creep
IsAtExpectedPosition(cp, id, cx, cy) ==
    /\ id \in DOMAIN cp
    /\ cp[id].pathIndex > 0
    /\ cp[id].pathIndex < Len(cp[id].path)
    /\ cp[id].path[(cp[id].pathIndex - 1) + 1].x = cx
    /\ cp[id].path[(cp[id].pathIndex - 1) + 1].y = cy

NeedsNewPathChecked(cp, id, cx, cy, targetId, tk) ==
    \/ id \notin DOMAIN cp
    \/ cp[id].target # targetId
    \/ tk - cp[id].tick >= CHECKED_PATH_REFRESH_INTERVAL
    \/ cp[id].pathIndex >= Len(cp[id].path)
    \/ ~IsAtExpectedPosition(cp, id, cx, cy)

\* part_004 cachedMoveTo: the effects of one call, as for CachedMoveTo
CachedMoveToChecked(cp, id, cx, cy, target, tk, fp) ==
    LET targetId == TargetKey(target)
        needsNewPath == NeedsNewPathChecked(cp, id, cx, cy, targetId, tk)
        quiet == [creepPaths |-> cp, findPathCalled |-> needsNewPath,
                  noPath |-> needsNewPath /\ (fp.isNull \/ fp.steps = <<>>),
                  moved |-> FALSE, direction |-> NoDirection,
                  stepIndex |-> -1, stepTick |-> -1]
    IN IF needsNewPath /\ NoValidPath(fp) THEN quiet
       ELSE LET cp1 == IF needsNewPath
                       THEN Put(cp, id, NewEntry(targetId, tk, fp.steps))
                       ELSE cp
                cache == cp1[id]
            IN IF CanFollow(cache)
               THEN LET nextStep == cache.path[cache.pathIndex + 1]
                    IN [creepPaths |->
                            [cp1 EXCEPT ![id].pathIndex = NextPathIndex(cache, cx, cy)],
                        findPathCalled |-> needsNewPath,
                        noPath |-> FALSE,
                        moved |-> TRUE,
                        direction |-> GetDirection(nextStep.x - cx, nextStep.y - cy),
                        stepIndex |-> cache.pathIndex,
                        stepTick |-> cache.tick]
               ELSE [quiet EXCEPT !.creepPaths = cp1]

CheckedInit == ControllerInit("checkedCall")

\* cachedMoveTo(creep, {x, y}) of part_004
CheckedCall ==
    /\ Step("checkedCall", "checkedEnd")
    /\ \E fp \in PathsTo(creepPos, Destination) :
          LET r == CachedMoveToChecked(creepPaths, PathCreep.id, creepPos.x, creepPos.y,
                                       Position(Destination), tick, fp)
          IN /\ creepPaths' = r.creepPaths
             /\ lastMove' = MoveRecord(PathCreep.id, Position(Destination), r)
    /\ UNCHANGED <<tick, creepPos, arenaVars, cats, bi, squadVars, squadTargets,
                   killVars>>
    /\ defenseSites' = {}
    /\ scan' = NoScan
    /\ heals' = NoHeal
    /\ attacks' = NoAttack
    /\ UNCHANGED <<mySpawnFound, probe, firstWaveLaunched>>

\* the arena ends the tick: the move the creep issued is carried out or delayed
CheckedEndTick ==
    /\ Step("checkedEnd", "checkedCall")
    /\ tick < MaxControllerTick
    /\ tick' = tick + 1
    /\ lastMove' = NoMove
    /\ \E ok \in BOOLEAN :
          LET next == Cell(creepPos.x + lastMove.direction.dx,
                           creepPos.y + lastMove.direction.dy)
          IN creepPos' = IF ok /\ lastMove.moved /\ next \in Cells THEN next
                         ELSE creepPos
    /\ UNCHANGED <<creepPaths, arenaVars, cats, bi, squadVars, squadTargets, killVars>>
    /\ defenseSites' = {}
    /\ scan' = NoScan
    /\ heals' = NoHeal
    /\ attacks' = NoAttack
    /\ UNCHANGED <<mySpawnFound, probe, firstWaveLaunched>>

CheckedNext == CheckedCall \/ CheckedEndTick

SpecChecked == CheckedInit /\ [][CheckedNext]_vars

-----------------------------------------------------------------------------
(* SpecEarliest: the earliest movement controller (src/unnamed/part_003),
   which stores whatever findPath answers. One creep calls it in every tick
   toward one coordinate; an error raised in loop() ends that call of loop()
   and the game calls loop() again in the next tick *)

\* part_003: const PATH_REFRESH_INTERVAL = 10
EARLIEST_PATH_REFRESH_INTERVAL == 10

\* creepPaths[creep.id] = {target, tick, path, pathIndex}: path is the answer
\* of findPath as given, null included
AnswerEntry(targetId, tk, fp) ==
    [target |-> targetId, tick |-> tk, path |-> fp, pathIndex |-> 0]

\* pathCache.path.length is read when the first three tests of needsNewPath
\* are false; reading it of null raises a TypeError
ReadsLengthOfNull(cp, id, targetId, tk) ==
    /\ id \in DOMAIN cp
    /\ cp[id].target = targetId
    /\ tk - cp[id].tick < EARLIEST_PATH_REFRESH_INTERVAL
    /\ cp[id].path.isNull

NeedsNewPathEarliest(cp, id, targetId, tk) ==
    \/ id \notin DOMAIN cp
    \/ cp[id].target # targetId
    \/ tk - cp[id].tick >= EARLIEST_PATH_REFRESH_INTERVAL
    \/ cp[id].pathIndex >= Len(cp[id].path.steps)

\* part_003 cachedMoveTo: the effects of one call, as for CachedMoveTo, and
\* whether the call raised an error
CachedMoveToEarliest(cp, id, cx, cy, target, tk, fp) ==
    LET targetId == TargetKey(target)
        quiet == [creepPaths |-> cp, findPathCalled |-> FALSE, noPath |-> FALSE,
                  moved |-> FALSE, direction |-> NoDirection,
                  stepIndex |-> -1, stepTick |-> -1, error |-> FALSE]
    IN IF ReadsLengthOfNull(cp, id, targetId, tk) THEN [quiet EXCEPT !.error = TRUE]
       ELSE LET needsNewPath == NeedsNewPathEarliest(cp, id, targetId, tk)
                cp1 == IF needsNewPath THEN Put(cp, id, AnswerEntry(targetId, tk, fp))
                       ELSE cp
                cache == cp1[id]
                asked == [quiet EXCEPT !.creepPaths = cp1,
                                       !.findPathCalled = needsNewPath,
                                       !.noPath = needsNewPath
                                                    /\ (fp.isNull \/ fp.steps = <<>>)]
            IN IF ~cache.path.isNull /\ cache.pathIndex < Len(cache.path.steps)
               THEN LET nextStep == cache.path.steps[cache.pathIndex + 1]
                    IN [asked EXCEPT
                          !.creepPaths = [cp1 EXCEPT ![id].pathIndex = cache.pathIndex + 1],
                          !.moved = TRUE,
                          !.direction = GetDirection(nextStep.x - cx, nextStep.y - cy),
                          !.stepIndex = cache.pathIndex,
                          !.stepTick = cache.tick]
               ELSE asked

EarliestInit == ControllerInit("earliestCall")

\* cachedMoveTo(creep, {x, y}) of part_003
EarliestCall ==
    /\ pc = "earliestCall"
    /\ \E fp \in FindPathResults(creepPos, Destination) :
          LET r == CachedMoveToEarliest(creepPaths, PathCreep.id, creepPos.x, creepPos.y,
                                        Position(Destination), tick, fp)
          IN /\ creepPaths' = r.creepPaths
             /\ lastMove' = MoveRecord(PathCreep.id, Position(Destination), r)
             /\ pc' = IF r.error THEN TypeError ELSE "earliestEnd"
    /\ UNCHANGED <<tick, creepPos, arenaVars, cats, bi, squadVars, squadTargets,
                   killVars>>
    /\ defenseSites' = {}
    /\ scan' = NoScan
    /\ heals' = NoHeal
    /\ attacks' = NoAttack
    /\ UNCHANGED <<mySpawnFound, probe, firstWaveLaunched>>

\* the arena ends the tick: the move the creep issued is carried out or delayed
EarliestEndTick ==
    /\ pc \in {"earliestEnd", TypeError}
    /\ pc' = "earliestCall"
    /\ tick < MaxControllerTick
    /\ tick' = tick + 1
    /\ lastMove' = NoMove
    /\ \E ok \in BOOLEAN :
          LET next == Cell(creepPos.x + lastMove.direction.dx,
                           creepPos.y + lastMove.direction.dy)
          IN creepPos' = IF ok /\ lastMove.moved /\ next \in Cells THEN next
                         ELSE creepPos
    /\ UNCHANGED <<creepPaths, arenaVars, cats, bi, squadVars, squadTargets, killVars>>
    /\ defenseSites' = {}
    /\ scan' = NoScan
    /\ heals' = NoHeal
    /\ attacks' = NoAttack
    /\ UNCHANGED <<mySpawnFound, probe, firstWaveLaunched>>

EarliestNext == EarliestCall \/ EarliestEndTick

SpecEarliest == EarliestInit /\ [][EarliestNext]_vars

-----------------------------------------------------------------------------
(* SpecLaunch: the game of the wave variant (src/unnamed/part_004). loop()
   prunes its tables, counts the creeps, deploys a wave, asks for defences,
   orders a creep and runs the behaviours; findPath finds no route, so that
   the behaviours leave creepPaths as it is. Between two ticks the creep
   ordered arrives and the enemy may destroy one creep *)

MaxLaunchCreeps == 11          \* creeps the spawn produces in one game
MaxLaunchTick == 24            \* SpecLaunch stops the clock here

\* part_004: attackers.length >= 5
FirstWaveSize == 5

\* part_004: undeployedAttackers.length >= 3
LaterWaveSize == 3

FighterBody == <<MOVE, MOVE, ATTACK, ATTACK>>
HealerBody == <<MOVE, HEAL>>

\* a launch as soon as a later wave could be formed
FirstWaveReadyEarly(launched, attackers) ==
    ~launched /\ Len(attackers) >= LaterWaveSize

\* if (!firstWaveLaunched && attackers.length >= 5)
FirstWaveReady(launched, attackers) ==
    ~launched /\ Len(attackers) >= FirstWaveSize

\* const undeployedAttackers = attackers.filter(a => !deployedAttackers.has(a.id))
Undeployed(attackers, da) == SelectSeq(attackers, LAMBDA a : a.id \notin da)

\* else if (firstWaveLaunched && undeployedAttackers.length >= 3)
LaterWaveReady(launched, undeployedAttackers) ==
    launched /\ Len(undeployedAttackers) >= LaterWaveSize

\* the loadout the spawn strategy of part_004 passes to spawnCreep
LaunchSpawnBody(harvesters, attackers, defenders) ==
    IF Len(harvesters) < 3 THEN HarvesterBody
    ELSE IF Len(attackers) < 10 THEN FighterBody
    ELSE IF Len(defenders) < 5 THEN HealerBody
    ELSE FighterBody

\* the first call of loop(): no creep yet, every table empty
LaunchInit ==
    /\ tick = 1
    /\ creepPaths = <<>>
    /\ creepPos = Cell(0, 0)
    /\ lastMove = NoMove
    /\ TablesInit
    /\ pc = "launchCleanup"
    /\ roster = <<>>
    /\ spawned = 0
    /\ newborn = <<>>
    /\ spawning = FALSE
    /\ enemies = {}
    /\ deaths = 0
    /\ cats = NoCats
    /\ bi = 0
    /\ defenseSites = {}
    /\ scan = NoScan
    /\ mySpawnFound = TRUE
    /\ heals = NoHeal
    /\ attacks = NoAttack
    /\ firstWaveLaunched = FALSE
    /\ probe = NoProbe

\* loop(): the tables are pruned and the creeps counted by body type
LaunchCleanup ==
    /\ Step("launchCleanup", "launchDeploy")
    /\ creepPaths' = PruneObject(creepPaths, Ids(roster))
    /\ deployedAttackers' = PruneSet(deployedAttackers, Ids(roster))
    /\ cats' = CategorizeCreeps(roster)
    /\ UNCHANGED <<tick, creepPos, lastMove, arenaVars, bi, deployedMedics,
                   squadAssignments, squadLeaders, nextSquadIndex, squadTargets, killVars,
                   firstWaveLaunched>>
    /\ defenseSites' = {}
    /\ scan' = NoScan
    /\ heals' = NoHeal
    /\ attacks' = NoAttack
    /\ UNCHANGED <<mySpawnFound, probe>>

\* loop(): deploy attack waves
LaunchDeploy ==
    /\ Step("launchDeploy", "launchDefenses")
    /\ LET attackers == cats.attackers
           undeployedAttackers == Undeployed(attackers, deployedAttackers)
       IN IF FirstWaveReady(firstWaveLaunched, attackers)
          THEN /\ deployedAttackers' = deployedAttackers \cup Ids(attackers)
               /\ firstWaveLaunched' = TRUE
          ELSE IF LaterWaveReady(firstWaveLaunched, undeployedAttackers)
          THEN /\ deployedAttackers' =
                      deployedAttackers \cup Ids(Take(undeployedAttackers, LaterWaveSize))
               /\ UNCHANGED firstWaveLaunched
          ELSE UNCHANGED <<deployedAttackers, firstWaveLaunched>>
    /\ UNCHANGED <<pathVars, arenaVars, cats, bi, deployedMedics, squadAssignments,
                   squadLeaders, nextSquadIndex, squadTargets, killVars>>
    /\ defenseSites' = {}
    /\ scan' = NoScan
    /\ heals' = NoHeal
    /\ attacks' = NoAttack
    /\ UNCHANGED <<mySpawnFound, probe>>

\* loop(): build defenses after the initial wave
LaunchDefenses ==
    /\ Step("launchDefenses", "launchSpawn")
    /\ \E noTowers \in BOOLEAN, noSites \in BOOLEAN :
          defenseSites' =
              IF firstWaveLaunched /\ noTowers /\ noSites
              THEN {[x |-> MySpawn.x + 2, y |-> MySpawn.y, kind |-> "tower"],
                    [x |-> MySpawn.x, y |-> MySpawn.y, kind |-> "rampart"]}
              ELSE {}
    /\ UNCHANGED <<pathVars, arenaVars, cats, bi, squadVars, squadTargets, killVars,
                   firstWaveLaunched>>
    /\ scan' = NoScan
    /\ heals' = NoHeal
    /\ attacks' = NoAttack
    /\ UNCHANGED <<mySpawnFound, probe>>

\* loop(): spawn strategy
LaunchSpawn ==
    /\ Step("launchSpawn", "launchBehaviors")
    /\ IF mySpawnFound /\ ~spawning /\ spawned < MaxLaunchCreeps
       THEN /\ newborn' = <<[id |-> CreepId(spawned + 1),
                             body |-> LaunchSpawnBody(cats.harvesters, cats.attackers,
                                                      cats.medics)]>>
            /\ spawned' = spawned + 1
            /\ spawning' = TRUE
       ELSE UNCHANGED <<newborn, spawned, spawning>>
    /\ UNCHANGED <<pathVars, roster, enemies, deaths, cats, bi, squadVars, squadTargets,
                   killVars, firstWaveLaunched>>
    /\ defenseSites' = {}
    /\ scan' = NoScan
    /\ heals' = NoHeal
    /\ attacks' = NoAttack
    /\ UNCHANGED <<mySpawnFound, probe>>

\* loop(): the behaviours of the creeps and of the towers; they read
\* deployedAttackers and write no table but creepPaths
LaunchBehaviors ==
    /\ Step("launchBehaviors", "launchEnd")
    /\ UNCHANGED <<pathVars, arenaVars, cats, bi, squadVars, squadTargets, killVars,
                   firstWaveLaunched>>
    /\ defenseSites' = {}
    /\ scan' = NoScan
    /\ heals' = NoHeal
    /\ attacks' = NoAttack
    /\ UNCHANGED <<mySpawnFound, probe>>

\* the arena ends the tick
LaunchEndTick ==
    /\ Step("launchEnd", "launchCleanup")
    /\ tick < MaxLaunchTick
    /\ tick' = tick + 1
    /\ \E dead \in {{}} \cup {{id} : id \in Ids(roster)} :
          /\ deaths + Cardinality(dead) <= MaxDeaths
          /\ deaths' = deaths + Cardinality(dead)
          /\ roster' = SelectSeq(roster, LAMBDA c : c.id \notin dead) \o newborn
    /\ newborn' = <<>>
    /\ spawning' = (newborn # <<>>)
    /\ cats' = NoCats
    /\ UNCHANGED <<creepPaths, creepPos, lastMove, spawned, enemies, bi, squadVars,
                   squadTargets, killVars, firstWaveLaunched>>
    /\ defenseSites' = {}
    /\ scan' = NoScan
    /\ heals' = NoHeal
    /\ attacks' = NoAttack
    /\ UNCHANGED <<mySpawnFound, probe>>

LaunchNext ==
    \/ LaunchCleanup
    \/ LaunchDeploy
    \/ LaunchDefenses
    \/ LaunchSpawn
    \/ LaunchBehaviors
    \/ LaunchEndTick

SpecLaunch == LaunchInit /\ [][LaunchNext]_vars

\* loop(): the executor the for loop runs for a creep
Dispatch(creep) ==
    IF HasPart(creep, CARRY) THEN "runHarvesterBehavior"
    ELSE IF HasPart(creep, HEAL) THEN "runMedicBehavior"
    ELSE "runAttackerBehavior"

-----------------------------------------------------------------------------
(* Properties of the lifecycle tracker and the deployment sequencer *)

\* every creep id held by a core table
TableIds ==
    DOMAIN creepPaths \cup DOMAIN squadAssignments \cup deployedAttackers
        \cup deployedMedics \cup killSquadCreeps \cup killSquadReachedWaypoint
        \cup {squadLeaders[s] : s \in DOMAIN squadLeaders}

\* cleanupDeadCreepState has returned in this tick
Pruned == pc \notin {"cleanupDeadCreepState", "pathCleanup"}

\* C1: once cleanupDeadCreepState has returned, no id of a creep absent from
\* myCreeps is a key of creepPaths or squadAssignments, an element of
\* deployedAttackers, deployedMedics, killSquadCreeps or
\* killSquadReachedWaypoint, or a value of squadLeaders.
C1_NoDeadIds == Pruned => TableIds \subseteq Ids(roster)

\* after the cleanup, with a member of the squad and a member of the kill squad
\* destroyed and gone from the tables
C1_Witness ==
    /\ pc = "cleanupDeadTargets"
    /\ nextSquadIndex = 1
    /\ Cardinality(DOMAIN squadAssignments) < ATTACKERS_PER_SQUAD + MEDICS_PER_SQUAD
    /\ killSquadDeployed
    /\ Cardinality(killSquadCreeps) < KILL_SQUAD_SIZE

BodyOf(id) == (CHOOSE c \in {roster[i] : i \in 1..Len(roster)} : c.id = id).body

\* C2: a call of deployAttackWaves leaves deployedAttackers, deployedMedics,
\* squadAssignments, squadLeaders and nextSquadIndex unchanged, or it adds
\* exactly ATTACKERS_PER_SQUAD distinct creeps with attack parts and exactly
\* MEDICS_PER_SQUAD creep with a heal part, tags all of them with one squad
\* name, names one of the new fighters leader and steps the index.
C2_FormationAtomic ==
    [][pc = "deployAttackWaves" =>
          \/ UNCHANGED squadVars
          \/ LET fighters == deployedAttackers' \ deployedAttackers
                 healers == deployedMedics' \ deployedMedics
                 squadName == SquadName(nextSquadIndex)
             IN /\ deployedAttackers \subseteq deployedAttackers'
                /\ deployedMedics \subseteq deployedMedics'
                /\ Cardinality(fighters) = ATTACKERS_PER_SQUAD
                /\ Cardinality(healers) = MEDICS_PER_SQUAD
                /\ fighters \cap healers = {}
                /\ \A id \in fighters : HasAttackCapability([body |-> BodyOf(id)])
                /\ \A id \in healers : HasPart([body |-> BodyOf(id)], HEAL)
                /\ DOMAIN squadAssignments' =
                       DOMAIN squadAssignments \cup fighters \cup healers
                /\ \A id \in fighters \cup healers : squadAssignments'[id] = squadName
                /\ \A id \in DOMAIN squadAssignments \ (fighters \cup healers) :
                       squadAssignments'[id] = squadAssignments[id]
                /\ squadName \in DOMAIN squadLeaders'
                /\ squadLeaders'[squadName] \in fighters
                /\ nextSquadIndex' = nextSquadIndex + 1]_vars

\* deployAttackWaves has just formed the first squad
C2_Witness ==
    /\ pc = "manageBuildDefenses"
    /\ nextSquadIndex = 1
    /\ Cardinality({id \in DOMAIN squadAssignments : squadAssignments[id] = SquadName(0)})
          = ATTACKERS_PER_SQUAD + MEDICS_PER_SQUAD
    /\ deaths = 0

\* the live deployed fighters tagged with squad s
LiveFighters(s) ==
    {id \in Ids(roster) \cap deployedAttackers :
        id \in DOMAIN squadAssignments /\ squadAssignments[id] = s}

\* C3: after the lifecycle phase, squadLeaders[s] is absent, or it is the id of
\* a creep that is alive, is in deployedAttackers and is tagged s.
C3_LeaderIsLiveFighter ==
    Pruned => \A s \in DOMAIN squadLeaders : squadLeaders[s] \in LiveFighters(s)

\* the first fighter the spawn delivers, after the gatherers and the kill squad
FirstFighter == CreepId(TARGET_HARVESTER_COUNT + KILL_SQUAD_SIZE + 1)

\* the first squad's first leader was destroyed and a squadmate leads
C3_Witness ==
    /\ pc = "cleanupDeadTargets"
    /\ SquadName(0) \in DOMAIN squadLeaders
    /\ FirstFighter \notin Ids(roster)
    /\ squadLeaders[SquadName(0)] # FirstFighter

\* the squad names in use
SquadNames == {squadAssignments[id] : id \in DOMAIN squadAssignments}

\* C4: after the lifecycle phase, a squad name carried by a live deployed
\* fighter has a leader, so a squad is leaderless only when no live deployed
\* fighter carries its tag; its live medics stay deployed and keep the tag.
C4_LeaderSuccession ==
    Pruned =>
       /\ \A s \in SquadNames : LiveFighters(s) # {} => s \in DOMAIN squadLeaders
       /\ \A id \in deployedMedics : id \in DOMAIN squadAssignments

\* all fighters of a squad are gone, the squad is leaderless and its medic is
\* alive, deployed and tagged
C4_Witness ==
    /\ pc = "cleanupDeadTargets"
    /\ \E id \in deployedMedics \cap Ids(roster) :
          /\ id \in DOMAIN squadAssignments
          /\ squadAssignments[id] \notin DOMAIN squadLeaders
          /\ LiveFighters(squadAssignments[id]) = {}

-----------------------------------------------------------------------------
(* Properties of loop() *)

\* the steps of loop(), in the order of its statements
PhaseOrder ==
    <<"cleanupDeadCreepState", "cleanupDeadTargets", "categorizeCreeps",
      "manageExtensionConstruction", "deployKillSquad", "deployAttackWaves",
      "manageBuildDefenses", "executeSpawnStrategy", "initializeTargetWalls",
      "behaviors", "end">>

Rank(phase) == CHOOSE i \in 1..Len(PhaseOrder) : PhaseOrder[i] = phase

\* C10: in every tick the loop runs cleanupDeadCreepState, cleanupDeadTargets,
\* categorizeCreeps, deployKillSquad, deployAttackWaves, the behaviours of the
\* creeps and the towers in this order, one after the other; a new tick starts
\* only after the towers; and the behaviours run over tables holding no dead
\* creep and no dead target.
C10_PhaseOrder ==
    [][/\ pc' # pc =>
             /\ tick' = tick => Rank(pc') = Rank(pc) + 1
             /\ tick' # tick => (pc = "end" /\ pc' = "cleanupDeadCreepState")
       /\ tick' # tick => pc = "end"
       /\ lastMove' # lastMove => pc \in {"behaviors", "end"}
       /\ cats' # cats => pc \in {"categorizeCreeps", "end"}
       /\ squadTargets' # squadTargets => pc \in {"cleanupDeadTargets", "behaviors"}
       /\ squadVars' # squadVars =>
             pc \in {"cleanupDeadCreepState", "deployKillSquad", "deployAttackWaves"}
       /\ pc = "behaviors" =>
             /\ TableIds \subseteq Ids(roster)
             /\ \A s \in DOMAIN squadTargets :
                   squadTargets[s] = NoId \/ squadTargets[s] \in enemies
             /\ cats = CategorizeCreeps(roster)]_vars

\* a fighter behaves in a tick whose cleanup removed a squadmate and whose
\* deployment phase is over
C10_Witness ==
    /\ pc = "behaviors"
    /\ bi > 1
    /\ deaths > 0
    /\ nextSquadIndex = 1
    /\ lastMove.creep \in deployedAttackers
    /\ Cardinality(LiveFighters(SquadName(0))) < ATTACKERS_PER_SQUAD

-----------------------------------------------------------------------------
(* Functions applied on their own, to arguments drawn from bounded sets *)

MaxScanned == 2

MaxRouteLen == 3

ATTACKER_ENEMY_DETECTION_RANGE == 8

ATTACKER_HARMLESS_DETECTION_RANGE == 4

\* the nearest enemy within maxRange, whatever its parts
FindNearestOfAny(creep, enemyCreeps, maxRange, maxHarmlessRange) ==
    LET range(i) == Chebyshev(creep.x, creep.y, enemyCreeps[i].x, enemyCreeps[i].y)
        near == {i \in DOMAIN enemyCreeps : range(i) <= maxRange}
    IN IF near = {} THEN <<>>
       ELSE <<enemyCreeps[CHOOSE i \in near :
                              \A j \in near : range(i) < range(j) \/ (range(i) = range(j) /\ i <= j)]>>

\* the for loop of findNearestEnemy from enemy i on; best holds nearestThreat,
\* minThreatDistance, nearestHarmless and minHarmlessDistance
RECURSIVE ScanEnemies(_, _, _, _)
ScanEnemies(creep, enemyCreeps, i, best) ==
    IF i > Len(enemyCreeps) THEN best
    ELSE LET enemy == enemyCreeps[i]
             distance == Chebyshev(creep.x, creep.y, enemy.x, enemy.y)
         IN ScanEnemies(creep, enemyCreeps, i + 1,
                IF HasAttackCapability(enemy)
                THEN (IF distance < best.minThreatDistance
                      THEN [best EXCEPT !.minThreatDistance = distance,
                                        !.nearestThreat = <<enemy>>]
                      ELSE best)
                ELSE (IF distance < best.minHarmlessDistance
                      THEN [best EXCEPT !.minHarmlessDistance = distance,
                                        !.nearestHarmless = <<enemy>>]
                      ELSE best))

\* findNearestEnemy(creep, maxRange, maxHarmlessRange = null) over the enemy
\* creeps of the arena; a list of zero or one enemies (null or the enemy)
FindNearestEnemy(creep, enemyCreeps, maxRange, maxHarmlessRange) ==
    LET harmlessRange == IF maxHarmlessRange # <<>> THEN maxHarmlessRange[1] ELSE maxRange
        best == ScanEnemies(creep, enemyCreeps, 1,
                            [nearestThreat |-> <<>>, minThreatDistance |-> maxRange + 1,
                             nearestHarmless |-> <<>>,
                             minHarmlessDistance |-> harmlessRange + 1])
    IN IF best.nearestThreat # <<>> THEN best.nearestThreat ELSE best.nearestHarmless

\* calculateKillSquadWaypoint(mySpawn, enemySpawn) from its first line; a
\* base is a list of zero or one structures
KillSquadWaypointFor(mySpawn, enemySpawn, shortestPath) ==
    IF mySpawn = <<>> \/ enemySpawn = <<>> THEN <<>>
    ELSE CalculateKillSquadWaypoint(enemySpawn[1].x, shortestPath)

\* the ranges on either side of the two detection ranges, and adjacent
ScanRanges ==
    {1, ATTACKER_HARMLESS_DETECTION_RANGE, ATTACKER_HARMLESS_DETECTION_RANGE + 1,
     ATTACKER_ENEMY_DETECTION_RANGE, ATTACKER_ENEMY_DETECTION_RANGE + 1}

\* getAllEnemyCreeps(): up to MaxScanned enemies east of the creep, each a
\* fighter or a medic
EnemyLists ==
    UNION {{[i \in 1..n |-> [id |-> "e" \o ToString(i), x |-> f[i][1], y |-> 0,
                             body |-> f[i][2]]] :
               f \in [1..n -> ScanRanges \X {AttackerBody, MedicBody}]} :
           n \in 0..MaxScanned}

\* the range arguments of the calls in the behaviours: the squad leader's, the
\* reserve fighter's and the adjacent-enemy check
ScanArguments ==
    {<<ATTACKER_ENEMY_DETECTION_RANGE, <<ATTACKER_HARMLESS_DETECTION_RANGE>>>>,
     <<ATTACKER_ENEMY_DETECTION_RANGE, <<>>>>,
     <<1, <<>>>>}

ScanProbes ==
    {[fn |-> "findNearestEnemy", creep |-> Cell(0, 0), enemyCreeps |-> l,
      maxRange |-> a[1], maxHarmlessRange |-> a[2], done |-> FALSE, result |-> <<>>] :
        l \in EnemyLists, a \in ScanArguments}

\* findPath(mySpawn, enemySpawn): null, or a list of up to MaxRouteLen steps
\* up the middle of the map, north of, on and south of the line y = 50
Routes ==
    {[isNull |-> TRUE, steps |-> <<>>]}
        \cup {[isNull |-> FALSE, steps |-> [i \in DOMAIN f |-> Cell(50, f[i])]] :
                  f \in UNION {[1..n -> {MidPointY, 49, 50, 89}] : n \in 0..MaxRouteLen}}

\* the bases of the two layouts of the arena, a base on the line x = 50, or none
Bases(id) == {<<>>} \cup {<<[id |-> id, x |-> x, y |-> 45]>> : x \in {5, 50, EnemySpawnX}}

WaypointProbes ==
    {[fn |-> "calculateKillSquadWaypoint", mySpawn |-> b, enemySpawn |-> e,
      shortestPath |-> r, done |-> FALSE, result |-> <<>>] :
        b \in {<<>>, <<MySpawn>>}, e \in Bases("enemySpawn"), r \in Routes}

FunctionsInit == FirstTick /\ probe \in ScanProbes \cup WaypointProbes

ApplyFindNearestEnemy ==
    /\ probe.fn = "findNearestEnemy"
    /\ ~probe.done
    /\ probe' = [probe EXCEPT !.done = TRUE,
                              !.result = FindNearestEnemy(probe.creep, probe.enemyCreeps,
                                                          probe.maxRange,
                                                          probe.maxHarmlessRange)]
    /\ UNCHANGED <<pathVars, arenaVars, loopVars, squadVars, squadTargets, killVars,
                   defenseSites, scan, mySpawnFound, heals,
                   attacks, firstWaveLaunched>>

ApplyCalculateKillSquadWaypoint ==
    /\ probe.fn = "calculateKillSquadWaypoint"
    /\ ~probe.done
    /\ probe' = [probe EXCEPT !.done = TRUE,
                              !.result = KillSquadWaypointFor(probe.mySpawn,
                                                              probe.enemySpawn,
                                                              probe.shortestPath)]
    /\ UNCHANGED <<pathVars, arenaVars, loopVars, squadVars, squadTargets, killVars,
                   defenseSites, scan, mySpawnFound, heals,
                   attacks, firstWaveLaunched>>

FunctionsNext == ApplyFindNearestEnemy \/ ApplyCalculateKillSquadWaypoint

SpecFunctions == FunctionsInit /\ [][FunctionsNext]_vars

-----------------------------------------------------------------------------
(* Claims on deployment, the defence gate and target designation *)

\* the positions in the roster of the fighters deployAttackWaves may still deploy
FreeFighterSlots ==
    {i \in 1..Len(roster) :
        /\ HasPart(roster[i], ATTACK) \/ HasPart(roster[i], RANGED_ATTACK)
        /\ roster[i].id \notin deployedAttackers \cup killSquadCreeps}

\* the live medics deployAttackWaves may still deploy
FreeMedics == {id \in Ids(roster) : HasPart([body |-> BodyOf(id)], HEAL)} \ deployedMedics

\* the pools hold a squad's worth and the spawn is idle
QuotaMet ==
    /\ Cardinality(FreeFighterSlots) >= ATTACKERS_PER_SQUAD
    /\ Cardinality(FreeMedics) >= MEDICS_PER_SQUAD

\* C11: when at least ATTACKERS_PER_SQUAD undeployed non-kill-squad fighters
\* and at least MEDICS_PER_SQUAD undeployed medic are alive and the spawn is
\* idle, one call of deployAttackWaves forms one squad and no more: its name
\* is NATO_ALPHABET[nextSquadIndex mod 26], its leader is the first undeployed
\* fighter in roster order, and nextSquadIndex grows by exactly one.
C11_OneSquadPerCall ==
    [][(pc = "deployAttackWaves" /\ ~spawning /\ QuotaMet) =>
          LET name == NATO_ALPHABET[(nextSquadIndex % 26) + 1]
              first == CHOOSE i \in FreeFighterSlots : \A j \in FreeFighterSlots : i <= j
              tagged == DOMAIN squadAssignments' \ DOMAIN squadAssignments
          IN /\ nextSquadIndex' = nextSquadIndex + 1
             /\ Cardinality(deployedAttackers' \ deployedAttackers) = ATTACKERS_PER_SQUAD
             /\ Cardinality(deployedMedics' \ deployedMedics) = MEDICS_PER_SQUAD
             /\ {squadAssignments'[id] : id \in tagged} = {name}
             /\ DOMAIN squadLeaders' = DOMAIN squadLeaders \cup {name}
             /\ squadLeaders'[name] = roster[first].id
             /\ \A s \in DOMAIN squadLeaders \ {name} : squadLeaders'[s] = squadLeaders[s]]_vars

\* the first call that found the quota met has formed squad Alpha, led by the
\* first fighter the spawn delivered
C11_Witness ==
    /\ pc = "manageBuildDefenses"
    /\ nextSquadIndex = 1
    /\ SquadName(0) \in DOMAIN squadLeaders
    /\ squadLeaders[SquadName(0)] = FirstFighter
    /\ FirstFighter \in deployedAttackers

\* C12: while the spawn is producing a creep, deployKillSquad and
\* deployAttackWaves return at once: deployedAttackers, deployedMedics,
\* killSquadCreeps, squadAssignments, squadLeaders, killSquadDeployed and
\* nextSquadIndex keep their values, whatever the pools hold.
C12_NoDeploymentWhileSpawning ==
    [][(spawning /\ pc \in {"deployKillSquad", "deployAttackWaves"}) =>
          UNCHANGED <<deployedAttackers, deployedMedics, killSquadCreeps,
                      squadAssignments, squadLeaders, killSquadDeployed,
                      nextSquadIndex>>]_vars

\* deployAttackWaves has returned with the quota met, because the spawn is busy
C12_Witness ==
    /\ pc = "manageBuildDefenses"
    /\ spawning
    /\ QuotaMet
    /\ nextSquadIndex = 0
    /\ squadAssignments = <<>>

\* C13: manageBuildDefenses asks for no tower or rampart site while
\* nextSquadIndex is 0, and no step takes nextSquadIndex back to 0: once the
\* first squad has formed, the gate stays open whatever creeps are lost.
C13_DefenseGate ==
    [][/\ defenseSites' # {} => (pc = "manageBuildDefenses" /\ nextSquadIndex >= 1)
       /\ nextSquadIndex >= 1 => nextSquadIndex' >= nextSquadIndex]_vars

\* the sites are asked for after every fighter of the only squad was destroyed
C13_Witness ==
    /\ pc = "executeSpawnStrategy"
    /\ defenseSites # {}
    /\ nextSquadIndex = 1
    /\ squadLeaders = <<>>
    /\ deaths >= ATTACKERS_PER_SQUAD

\* the squads whose target entry the step writes a new value into
Designated ==
    {s \in DOMAIN squadTargets' :
        s \notin DOMAIN squadTargets \/ squadTargets'[s] # squadTargets[s]}

\* C14: squadTargets[s] receives a value only in the behaviour step of the
\* creep u with squadLeaders[s] = u, a deployed fighter outside the kill
\* squad; followers, medics, kill-squad members and gatherers write none, and
\* no phase before the behaviours does.
C14_OnlyLeaderDesignates ==
    [][\A s \in Designated :
          /\ Behaving
          /\ s \in DOMAIN squadLeaders
          /\ squadLeaders[s] = CurrentCreep.id
          /\ CurrentCreep.id \in deployedAttackers \ killSquadCreeps
          /\ ~HasPart(CurrentCreep, CARRY)
          /\ ~HasPart(CurrentCreep, HEAL)]_vars

\* the leader of squad Alpha has just designated an enemy, and a squadmate
\* behaves next
C14_Witness ==
    /\ pc = "behaviors"
    /\ bi > 1
    /\ bi <= Len(roster)
    /\ SquadName(0) \in DOMAIN squadLeaders
    /\ roster[bi - 1].id = squadLeaders[SquadName(0)]
    /\ SquadName(0) \in DOMAIN squadTargets
    /\ squadTargets[SquadName(0)] \in enemies
    /\ roster[bi].id \in deployedAttackers \ killSquadCreeps

\* C15: whenever the leader of squad s runs its deployed-fighter behaviour,
\* the step leaves squadTargets[s] equal to the id findNearestEnemy gave the
\* leader in that step, or null when it gave none: the target of an earlier
\* tick survives only by being found again.
C15_LeaderRedesignates ==
    [][(/\ Behaving
        /\ ~HasPart(CurrentCreep, CARRY) /\ ~HasPart(CurrentCreep, HEAL)
        /\ CurrentCreep.id \in deployedAttackers \ killSquadCreeps
        /\ CurrentCreep.id \in DOMAIN squadAssignments
        /\ squadAssignments[CurrentCreep.id] \in DOMAIN squadLeaders
        /\ squadLeaders[squadAssignments[CurrentCreep.id]] = CurrentCreep.id) =>
          LET s == squadAssignments[CurrentCreep.id]
          IN /\ scan' # NoScan
             /\ scan'[1] \in enemies \cup {NoId}
             /\ s \in DOMAIN squadTargets'
             /\ squadTargets'[s] = scan'[1]]_vars

\* an enemy is alive, the leader of squad Alpha found none in range and the
\* squad's target is null
C15_Witness ==
    /\ pc = "behaviors"
    /\ scan = <<NoId>>
    /\ enemies # {}
    /\ SquadName(0) \in DOMAIN squadTargets
    /\ squadTargets[SquadName(0)] = NoId
    /\ tick > FirstRaidTick

-----------------------------------------------------------------------------
(* Claims on the kill squad *)

\* C19: once killSquadWaypoint holds a cell, no step changes it; it is
\* written only while it is null, by runKillSquadBehavior in the behaviour
\* step of a kill-squad member, whatever findPath answers afterwards.
C19_WaypointSetOnce ==
    [][/\ killSquadWaypoint # <<>> => killSquadWaypoint' = killSquadWaypoint
       /\ killSquadWaypoint' # killSquadWaypoint =>
              /\ killSquadWaypoint = <<>>
              /\ Behaving
              /\ CurrentCreep.id \in killSquadCreeps]_vars

\* both members of the kill squad have reached the waypoint, the second of
\* them in a step that found it set
C19_Witness ==
    /\ pc = "behaviors"
    /\ killSquadWaypoint = <<Cell(87, 89)>>
    /\ Cardinality(killSquadCreeps) = KILL_SQUAD_SIZE
    /\ killSquadReachedWaypoint = killSquadCreeps
    /\ lastMove.creep \in killSquadCreeps

-----------------------------------------------------------------------------
(* Claims on the functions *)

\* the range of enemy i of the probe from the probe's creep
ProbeRange(i) ==
    Chebyshev(probe.creep.x, probe.creep.y, probe.enemyCreeps[i].x, probe.enemyCreeps[i].y)

\* the enemies with an attack part within maxRange
ThreatsInRange ==
    {i \in DOMAIN probe.enemyCreeps :
        /\ HasPart(probe.enemyCreeps[i], ATTACK) \/ HasPart(probe.enemyCreeps[i], RANGED_ATTACK)
        /\ ProbeRange(i) <= probe.maxRange}

\* the enemies without one within the harmless range
HarmlessInRange ==
    {i \in DOMAIN probe.enemyCreeps :
        /\ ~HasPart(probe.enemyCreeps[i], ATTACK)
        /\ ~HasPart(probe.enemyCreeps[i], RANGED_ATTACK)
        /\ ProbeRange(i) <= (IF probe.maxHarmlessRange = <<>> THEN probe.maxRange
                              ELSE probe.maxHarmlessRange[1])}

\* the result is an enemy of the set, and none of the set is nearer
NearestOf(set) ==
    \E i \in set : /\ probe.result = <<probe.enemyCreeps[i]>>
                    /\ \A j \in set : ProbeRange(i) <= ProbeRange(j)

\* C16: findNearestEnemy returns a threat at minimal range among the threats
\* within maxRange whenever there is one, even when a harmless enemy is
\* nearer; otherwise a harmless enemy at minimal range among those within the
\* harmless range; and null exactly when both sets are empty.
C16_ThreatsFirst ==
    (probe.fn = "findNearestEnemy" /\ probe.done) =>
        /\ ThreatsInRange # {} => NearestOf(ThreatsInRange)
        /\ (ThreatsInRange = {} /\ HarmlessInRange # {}) => NearestOf(HarmlessInRange)
        /\ probe.result = <<>> <=> (ThreatsInRange = {} /\ HarmlessInRange = {})

\* the leader's search returned a threat although a harmless enemy within
\* the harmless range stands nearer
C16_Witness ==
    /\ probe.fn = "findNearestEnemy"
    /\ probe.done
    /\ probe.maxHarmlessRange = <<ATTACKER_HARMLESS_DETECTION_RANGE>>
    /\ \E t \in ThreatsInRange, h \in HarmlessInRange :
          /\ ProbeRange(h) < ProbeRange(t)
          /\ probe.result = <<probe.enemyCreeps[t]>>

\* the step of the probe's path at index floor(length / 2)
ProbeMidPoint == probe.shortestPath.steps[(Len(probe.shortestPath.steps) \div 2) + 1]

\* C20: calculateKillSquadWaypoint returns null when a base is missing or the
\* shortest path is null or empty; otherwise one of the four flanking cells:
\* its y is on the other side of the line y = 50 from the step of the path at
\* index floor(length / 2), its x on the same side of the line x = 50 as the
\* enemy base; a midpoint north with the enemy to the right gives (87, 89).
\* A midpoint on the line counts as south, a base on the line as left.
C20_FlankingWaypoint ==
    (probe.fn = "calculateKillSquadWaypoint" /\ probe.done) =>
        IF \/ probe.mySpawn = <<>>
           \/ probe.enemySpawn = <<>>
           \/ probe.shortestPath.isNull
           \/ probe.shortestPath.steps = <<>>
        THEN probe.result = <<>>
        ELSE /\ probe.result # <<>>
             /\ probe.result[1].x \in {12, 87}
             /\ probe.result[1].y \in {10, 89}
             /\ ProbeMidPoint.y < 50 <=> probe.result[1].y > 50
             /\ probe.enemySpawn[1].x > 50 <=> probe.result[1].x > 50
             /\ (ProbeMidPoint.y < 50 /\ probe.enemySpawn[1].x > 50)
                    => probe.result = <<Cell(87, 89)>>

\* a path of three steps whose middle step is north while its last is south,
\* with the enemy base to the right: the waypoint is (87, 89)
C20_Witness ==
    /\ probe.fn = "calculateKillSquadWaypoint"
    /\ probe.done
    /\ probe.mySpawn # <<>>
    /\ probe.enemySpawn # <<>>
    /\ probe.enemySpawn[1].x > 50
    /\ Len(probe.shortestPath.steps) = 3
    /\ probe.shortestPath.steps[2].y < 50
    /\ probe.shortestPath.steps[3].y > 50
    /\ probe.result = <<Cell(87, 89)>>

-----------------------------------------------------------------------------
(* Claims on role dispatch *)

\* the pools of categorizeCreeps that hold the creep
PoolsOf(id) == {p \in {"harvesters", "medics", "attackers"} : id \in Ids(cats[p])}

\* the pool of the role each executor plays
PoolOfExecutor ==
    [runHarvesterBehavior |-> "harvesters", runMedicBehavior |-> "medics",
     runAttackerBehavior |-> "attackers"]

Inert(creep) ==
    /\ ~HasPart(creep, CARRY)
    /\ ~HasPart(creep, HEAL)
    /\ ~HasPart(creep, ATTACK)
    /\ ~HasPart(creep, RANGED_ATTACK)

-----------------------------------------------------------------------------
(* Claims on kill-squad routing and on movement *)

\* the step is the behaviour of a deployed kill-squad member
KillSquadStep ==
    /\ Behaving
    /\ ~HasPart(CurrentCreep, CARRY) /\ ~HasPart(CurrentCreep, HEAL)
    /\ CurrentCreep.id \in deployedAttackers \cap killSquadCreeps

\* the step calls cachedMoveTo for the creep toward the target with this key
MovesToward(id, key) ==
    lastMove'.creep = id /\ lastMove'.calls = 1 /\ lastMove'.target = key

\* C21: a kill-squad member is sent toward the enemy spawn only in a step that
\* leaves it recorded in killSquadReachedWaypoint (it is, or has been, within
\* 3 cells of the waypoint); once recorded it is never again sent toward the
\* waypoint, however far from it, and the record stays while it lives.
C21_TwoStageOneWay ==
    [][/\ KillSquadStep =>
              /\ MovesToward(CurrentCreep.id, TargetKey(EnemySpawn))
                     => CurrentCreep.id \in killSquadReachedWaypoint'
              /\ CurrentCreep.id \in killSquadReachedWaypoint
                     => \A w \in Cells \cup {Cell(87, 89), Cell(87, 10), Cell(12, 89),
                                              Cell(12, 10)} :
                            ~MovesToward(CurrentCreep.id, TargetKey(Position(w)))
       /\ \A id \in killSquadReachedWaypoint \cap Ids(roster') :
              id \in killSquadReachedWaypoint']_vars

\* a member recorded as having reached the waypoint has just been sent toward
\* the enemy spawn
C21_Witness ==
    /\ pc = "behaviors"
    /\ lastMove.creep \in killSquadReachedWaypoint
    /\ lastMove.calls = 1
    /\ lastMove.target = TargetKey(EnemySpawn)
    /\ killSquadWaypoint # <<>>

AimedStep == creepPaths[lastMove.creep].path[lastMove.stepIndex + 1]

\* C23: whenever cachedMoveTo issues a move, the step it aims at is a
\* neighbour of the cell the creep stands on and not that cell itself, so
\* getDirection is never given a zero offset.
C23_MoveAimsAtNeighbour ==
    (pc = "pathEnd" /\ lastMove.moved) =>
        Chebyshev(creepPos.x, creepPos.y, AimedStep.x, AimedStep.y) = 1

-----------------------------------------------------------------------------
(* Claims on the robustness of the tick loop *)

\* C24: whatever the roster, the enemies, the pathfinder's answers and the
\* structures present or absent, the own spawn among them, a call of loop()
\* runs through all its phases and raises no error.
C24_LoopCompletes == pc # TypeError

\* the target cleanup of the current tick has run
TargetsCleaned == pc \notin {"cleanupDeadCreepState", "cleanupDeadTargets"}

\* C25: once cleanupDeadTargets has run in a tick, every entry of squadTargets
\* is null or the id of an enemy alive in that tick (a squad may also have no
\* entry), and getSquadTarget answers every creep of the roster with null or
\* a live enemy until the tick ends.
C25_TargetsAlive ==
    TargetsCleaned =>
        /\ \A s \in DOMAIN squadTargets :
              squadTargets[s] = NoId \/ squadTargets[s] \in enemies
        /\ \A i \in 1..Len(roster) :
              GetSquadTarget(roster[i].id, squadAssignments, squadTargets, enemies)
                  \in enemies \cup {NoId}

\* a squad led since before the raid has lost its entry to the cleanup: its
\* leader designates in every tick, so the entry was there and named an enemy
\* that is gone
C25_Witness ==
    /\ pc = "categorizeCreeps"
    /\ tick > FirstRaidTick
    /\ \E s \in DOMAIN squadLeaders : s \notin DOMAIN squadTargets

-----------------------------------------------------------------------------
(* Claims on the deployment sequencer late in a game *)

\* C26: the sequencer never comes to rest: however many squads were formed
\* before and whatever is left of them, a call of deployAttackWaves that finds
\* at least ATTACKERS_PER_SQUAD undeployed fighters outside the kill squad and
\* MEDICS_PER_SQUAD undeployed medic alive, with the spawn idle, forms a squad
\* in that call: nextSquadIndex moves on and the squad's fighters and medic
\* come out of the pools.
C26_SequencerNeverRests ==
    [][(pc = "deployAttackWaves" /\ ~spawning /\ QuotaMet) =>
          /\ nextSquadIndex' > nextSquadIndex
          /\ deployedAttackers' # deployedAttackers
          /\ deployedAttackers' \ deployedAttackers
                 \subseteq {roster[i].id : i \in FreeFighterSlots}
          /\ deployedMedics' # deployedMedics
          /\ deployedMedics' \ deployedMedics \subseteq FreeMedics
          /\ SquadName(nextSquadIndex) \in DOMAIN squadLeaders'
          /\ squadLeaders'[SquadName(nextSquadIndex)]
                 \in deployedAttackers' \ deployedAttackers]_vars

\* a squad has been formed after every name of the alphabet had been given
\* out, while the first squad was wiped out in the tick before
C26_Witness ==
    /\ pc = "manageBuildDefenses"
    /\ nextSquadIndex = Len(NATO_ALPHABET) + 1
    /\ Ids(roster) \cap Ids(FirstSquad) = {}
    /\ SquadName(nextSquadIndex - 1) \in DOMAIN squadLeaders
    /\ squadLeaders[SquadName(nextSquadIndex - 1)] \in Ids(roster)

-----------------------------------------------------------------------------
(* Claims on the classifier and on the lifecycle tracker's frame *)

\* the core tables
CoreTables ==
    <<creepPaths, deployedAttackers, deployedMedics, squadAssignments, squadLeaders,
      squadTargets, nextSquadIndex, killSquadDeployed, killSquadCreeps,
      killSquadWaypoint, killSquadReachedWaypoint>>

\* the lists categorizeCreeps returned are in use
Classified ==
    pc \in {"manageExtensionConstruction", "deployKillSquad", "deployAttackWaves",
            "manageBuildDefenses", "executeSpawnStrategy", "initializeTargetWalls",
            "behaviors"}

EntryOf(obj, id) == IF id \in DOMAIN obj THEN <<obj[id]>> ELSE <<>>

\* C28: cleanupDeadCreepState touches nothing that belongs to a creep of the
\* roster: for every live creep its creepPaths entry, its squad tag and its
\* membership of deployedAttackers, deployedMedics, killSquadCreeps and
\* killSquadReachedWaypoint are after the call what they were before it, and
\* squadLeaders[s] keeps its value whenever the recorded leader is alive; no
\* entry is added, and every entry removed or rewritten named a creep that is
\* not in the roster.
C28_PruningSparesTheLiving ==
    [][(pc \in {"cleanupDeadCreepState", "pathCleanup"}) =>
          LET alive == Ids(roster)
          IN /\ \A id \in alive :
                   /\ EntryOf(creepPaths', id) = EntryOf(creepPaths, id)
                   /\ EntryOf(squadAssignments', id) = EntryOf(squadAssignments, id)
                   /\ id \in deployedAttackers' <=> id \in deployedAttackers
                   /\ id \in deployedMedics' <=> id \in deployedMedics
                   /\ id \in killSquadCreeps' <=> id \in killSquadCreeps
                   /\ id \in killSquadReachedWaypoint' <=> id \in killSquadReachedWaypoint
             /\ \A s \in DOMAIN squadLeaders :
                   squadLeaders[s] \in alive =>
                       EntryOf(squadLeaders', s) = <<squadLeaders[s]>>
             /\ DOMAIN creepPaths' \subseteq DOMAIN creepPaths
             /\ DOMAIN squadAssignments' \subseteq DOMAIN squadAssignments
             /\ deployedAttackers' \subseteq deployedAttackers
             /\ deployedMedics' \subseteq deployedMedics
             /\ killSquadCreeps' \subseteq killSquadCreeps
             /\ killSquadReachedWaypoint' \subseteq killSquadReachedWaypoint
             /\ DOMAIN squadLeaders' \subseteq DOMAIN squadLeaders
             /\ UNCHANGED <<squadTargets, nextSquadIndex, killSquadDeployed,
                            killSquadWaypoint>>]_vars

\* the cleanup has run after part of the first squad was destroyed: the dead
\* have lost their tags, and a survivor still has its tag and its deployment
C28_Witness ==
    /\ pc = "cleanupDeadTargets"
    /\ deaths > 0
    /\ Cardinality(DOMAIN squadAssignments) < ATTACKERS_PER_SQUAD + MEDICS_PER_SQUAD
    /\ \E id \in DOMAIN squadAssignments \cap Ids(roster) : id \in deployedAttackers

-----------------------------------------------------------------------------
(* Claims on squad names and on the medic *)

\* the live creeps that carry squad tag s
Carriers(s) ==
    {id \in Ids(roster) \cap DOMAIN squadAssignments : squadAssignments[id] = s}

\* C29: a squad name stands for one squad at a time, also once the alphabet
\* has been gone through and names come round again: the live creeps under
\* one tag are at most ATTACKERS_PER_SQUAD deployed fighters and
\* MEDICS_PER_SQUAD deployed medic, all deployed by the same call of
\* deployAttackWaves, so never creeps of the first squad beside later ones.
C29_OneSquadPerName ==
    \A s \in {squadAssignments[id] : id \in DOMAIN squadAssignments} :
        /\ Cardinality(Carriers(s) \cap deployedAttackers) <= ATTACKERS_PER_SQUAD
        /\ Cardinality(Carriers(s) \cap deployedMedics) <= MEDICS_PER_SQUAD
        /\ Carriers(s) \subseteq Ids(FirstSquad) \/ Carriers(s) \cap Ids(FirstSquad) = {}

\* C30: a deployed medic that finds no fighter of its squad wounded, and has
\* a leader or a squadmate to go by, calls heal or rangedHeal in that step:
\* on the squad leader, or with no leader on a squadmate. It does not get by
\* with following alone.
C30_MedicHealsTheSound ==
    heals # NoHeal =>
        LET h == heals[1]
            leader == GetSquadLeader(h.medic, roster, squadAssignments, squadLeaders)
            squadmates == GetSquadMembers(h.medic, roster, squadAssignments,
                                          deployedAttackers, TRUE)
        IN (/\ h.medic \in deployedMedics
            /\ h.damaged = NoId
            /\ squadmates # <<>> \/ leader # NoId)
           => /\ h.calls # <<>>
              /\ h.calls[1].target =
                     (IF leader # NoId THEN leader ELSE h.calls[1].target)
              /\ h.calls[1].target \in Ids(squadmates) \cup {leader}

-----------------------------------------------------------------------------
(* Claims on squad cohesion and on the deployment tables *)

Living == Ids(roster) \cap Ids(roster')

C33_TagMeansDeployed ==
    \A id \in Ids(roster) :
        id \in DOMAIN squadAssignments <=>
            \/ id \in deployedMedics
            \/ id \in deployedAttackers /\ id \notin killSquadCreeps

\* live creeps of every kind stand side by side: tagged fighters and a tagged
\* medic, the untagged kill squad, and an undeployed gatherer without a tag
C33_Witness ==
    /\ \E id \in Ids(roster) \cap deployedMedics : id \in DOMAIN squadAssignments
    /\ \E id \in Ids(roster) \cap (deployedAttackers \ killSquadCreeps) :
          id \in DOMAIN squadAssignments
    /\ \E id \in Ids(roster) \cap killSquadCreeps : id \notin DOMAIN squadAssignments
    /\ \E id \in Ids(cats.harvesters) \ (deployedAttackers \cup deployedMedics) :
          id \notin DOMAIN squadAssignments

\* C34: in every state killSquadReachedWaypoint is within killSquadCreeps and
\* killSquadCreeps within deployedAttackers, and no creep of killSquadCreeps
\* has a squadAssignments entry or is a value of squadLeaders.
C34_KillSquadNested ==
    /\ killSquadReachedWaypoint \subseteq killSquadCreeps
    /\ killSquadCreeps \subseteq deployedAttackers
    /\ \A id \in killSquadCreeps :
          /\ id \notin DOMAIN squadAssignments
          /\ \A s \in DOMAIN squadLeaders : squadLeaders[s] # id

\* one creep of the kill squad has passed the waypoint and the other has not,
\* while a named squad with its leader is in the field
C34_Witness ==
    /\ killSquadReachedWaypoint # {}
    /\ killSquadReachedWaypoint # killSquadCreeps
    /\ DOMAIN squadLeaders # {}
    /\ deployedAttackers \ killSquadCreeps # {}

\* C35: killSquadDeployed never goes back to false, so it is set at most
\* once; the step that sets it puts exactly KILL_SQUAD_SIZE creeps of 4 MOVE
\* and 2 ATTACK parts into the empty killSquadCreeps; before it the table is
\* empty and after it no step adds to it, whatever creeps stand at the spawn.
C35_KillSquadOnce ==
    [][/\ killSquadDeployed =>
             /\ killSquadDeployed'
             /\ killSquadCreeps' \subseteq killSquadCreeps
       /\ (~killSquadDeployed /\ killSquadDeployed') =>
             /\ killSquadCreeps = {}
             /\ Cardinality(killSquadCreeps') = KILL_SQUAD_SIZE
             /\ \A id \in killSquadCreeps' : BodyOf(id) = KillSquadBody
       /\ ~killSquadDeployed' => killSquadCreeps' = {}]_vars

\* deployKillSquad has run at an idle spawn where KILL_SQUAD_SIZE creeps of
\* the loadout stand in no table: the squad was sent out before
C35_Witness ==
    /\ pc = "deployAttackWaves"
    /\ killSquadDeployed
    /\ ~spawning
    /\ Len(KillSquadCandidates(cats.attackers, deployedAttackers, killSquadCreeps))
          >= KILL_SQUAD_SIZE

-----------------------------------------------------------------------------
(* Claims on the movement controllers *)

\* C36: a creep that calls cachedMoveTo toward one coordinate in every tick,
\* is given a path from its cell by every findPath, and has every move
\* carried out, stands on that coordinate after finitely many ticks.
C36_PathProgress == <>(creepPos = Destination)

\* the creep stands on the coordinate after its path was refreshed on the way
\* and the cursor had advanced over a step of the refreshed path
C36_Witness ==
    /\ pc = "progressCall"
    /\ creepPos = Destination
    /\ PathCreep.id \in DOMAIN creepPaths
    /\ creepPaths[PathCreep.id].tick > PATH_REFRESH_INTERVAL
    /\ creepPaths[PathCreep.id].pathIndex > 0

\* the creep stands on the step its cached path last sent it to, or on the
\* step before the cursor
FollowedPath(cache) ==
    \/ cache.pathIndex < Len(cache.path) /\ creepPos = cache.path[cache.pathIndex + 1]
    \/ cache.pathIndex > 0 /\ creepPos = cache.path[cache.pathIndex]

\* C37: in the controller of part_004, a call that finds an entry for the
\* same target, younger than the refresh interval, with its cursor inside
\* the step list and the creep on the path as directed does not invoke
\* findPath.
C37_ValidEntryReused ==
    [][(/\ pc = "checkedCall"
        /\ PathCreep.id \in DOMAIN creepPaths
        /\ creepPaths[PathCreep.id].target = TargetKey(Position(Destination))
        /\ tick - creepPaths[PathCreep.id].tick < CHECKED_PATH_REFRESH_INTERVAL
        /\ creepPaths[PathCreep.id].pathIndex < Len(creepPaths[PathCreep.id].path)
        /\ FollowedPath(creepPaths[PathCreep.id]))
          => ~lastMove'.findPathCalled]_vars

\* C38: in the controller of part_003, a call in which findPath answers null
\* issues no move and raises no error, and no call that finds the entry of a
\* null answer raises an error, whatever the age of the entry.
C38_NullPathNeverRaises ==
    [][pc = "earliestCall" =>
          /\ (lastMove'.findPathCalled /\ lastMove'.noPath) =>
                ~lastMove'.moved /\ pc' # TypeError
          /\ (PathCreep.id \in DOMAIN creepPaths
                /\ creepPaths[PathCreep.id].path.isNull) => pc' # TypeError]_vars

\* the live creeps with an ATTACK or RANGED_ATTACK part
FighterIds == {roster[i].id : i \in {j \in 1..Len(roster) : HasAttackCapability(roster[j])}}

\* C39: in the wave variant nothing is deployed while firstWaveLaunched is
\* false; the flag is set, for good, exactly by a deployment step that finds
\* at least 5 live fighters, and that step deploys every one of them; every
\* later step that deploys adds exactly 3 fighters out of at least 3
\* undeployed ones; tower and rampart sites are asked for only with the flag
\* set.
C39_TwoPhaseWaves ==
    [][/\ firstWaveLaunched => firstWaveLaunched'
       /\ ~firstWaveLaunched' => deployedAttackers' = {}
       /\ (pc = "launchDeploy" /\ ~firstWaveLaunched) =>
             (firstWaveLaunched' <=> Cardinality(FighterIds) >= FirstWaveSize)
       /\ (~firstWaveLaunched /\ firstWaveLaunched') =>
             /\ pc = "launchDeploy"
             /\ deployedAttackers' = FighterIds
       /\ (firstWaveLaunched /\ ~(deployedAttackers' \subseteq deployedAttackers)) =>
             /\ pc = "launchDeploy"
             /\ deployedAttackers \subseteq deployedAttackers'
             /\ Cardinality(deployedAttackers' \ deployedAttackers) = LaterWaveSize
             /\ deployedAttackers' \subseteq FighterIds
             /\ Cardinality(FighterIds \ deployedAttackers) >= LaterWaveSize
       /\ defenseSites' # {} => firstWaveLaunched]_vars

\* a later wave of 3 has followed the initial wave, and the sites of the
\* tower and the rampart were asked for
C39_Witness ==
    /\ pc = "launchSpawn"
    /\ firstWaveLaunched
    /\ Cardinality(deployedAttackers) >= FirstWaveSize + LaterWaveSize
    /\ defenseSites # {}

====
